---------------------------- MODULE Spec2Model ----------------------------
(***************************************************************************)
(* Model of the validation engine (LogicChecker, src/logic_checker.py),    *)
(* the full-scan worker (InitialScanWorker, src/workers.py) and the scan   *)
(* handlers of MainWindow (src/main_window.py).                            *)
(*                                                                         *)
(* Strings are TLA+ strings; a character is a string of length 1.  Paths   *)
(* are POSIX path strings.  TLA+ strings are ASCII, so the Chinese         *)
(* literals of the source are written in pinyin:                           *)
(*     分轨wav          "fenguiwav"        总轨wav   "zongguiwav"          *)
(*     混音工程原文件   "hunyingongcheng"  干声      "gansheng"            *)
(*     乐器音源对照表   "yueqiyinyuan"                                     *)
(* and the bracketed tag of every message is written in English, e.g.      *)
(* [命名错误] is "[NamingError]", [缺失目录] is "[MissingDir]".            *)
(***************************************************************************)
EXTENDS Integers, Sequences, FiniteSets, Bags, TLC

(***************************************************************************)
(* str methods and os.path functions used by the code.                     *)
(***************************************************************************)
Ch(s, i) == SubSeq(s, i, i)

StartsWith(s, p) == Len(p) <= Len(s) /\ SubSeq(s, 1, Len(p)) = p

EndsWith(s, p) == Len(p) <= Len(s) /\ SubSeq(s, Len(s) - Len(p) + 1, Len(s)) = p

\* the lower-case letter of every upper-case ASCII letter
LowerTable ==
  [A |-> "a", B |-> "b", C |-> "c", D |-> "d", E |-> "e", F |-> "f", G |-> "g",
   H |-> "h", I |-> "i", J |-> "j", K |-> "k", L |-> "l", M |-> "m", N |-> "n",
   O |-> "o", P |-> "p", Q |-> "q", R |-> "r", S |-> "s", T |-> "t", U |-> "u",
   V |-> "v", W |-> "w", X |-> "x", Y |-> "y", Z |-> "z"]

LowerCh(c) == IF c \in DOMAIN LowerTable THEN LowerTable[c] ELSE c

RECURSIVE Lower(_)
Lower(s) == IF s = "" THEN "" ELSE LowerCh(Head(s)) \o Lower(Tail(s))

RECURSIVE FindFrom(_, _, _)
FindFrom(s, sub, i) ==
  IF i + Len(sub) - 1 > Len(s) THEN 0
  ELSE IF SubSeq(s, i, i + Len(sub) - 1) = sub THEN i
  ELSE FindFrom(s, sub, i + 1)

\* s.find(sub): the least index (from 1) where sub occurs in s, 0 when it does not
Find(s, sub) == FindFrom(s, sub, 1)

RECURSIVE RFindFrom(_, _, _)
RFindFrom(s, sub, i) ==
  IF i < 1 THEN 0
  ELSE IF SubSeq(s, i, i + Len(sub) - 1) = sub THEN i
  ELSE RFindFrom(s, sub, i - 1)

\* s.rfind(sub): the greatest index (from 1) where sub occurs in s, 0 when it does not
RFind(s, sub) == RFindFrom(s, sub, Len(s) - Len(sub) + 1)

\* sub in s
Contains(s, sub) == Find(s, sub) # 0

\* s.split(sep) for a one-character sep: the fields, empty ones included
RECURSIVE Split(_, _)
\* the fields of s, given the index i of its first sep (0 when it has none)
SplitAt(s, sep, i) ==
  IF i = 0 THEN <<s>>
  ELSE <<SubSeq(s, 1, i - 1)>> \o Split(SubSeq(s, i + 1, Len(s)), sep)

Split(s, sep) == SplitAt(s, sep, Find(s, sep))

IsSpace(c) == c \in {" ", "\t", "\n", "\r"}

RECURSIVE LStrip(_)
LStrip(s) == IF s # "" /\ IsSpace(Head(s)) THEN LStrip(Tail(s)) ELSE s

RECURSIVE RStrip(_)
RStrip(s) ==
  IF s # "" /\ IsSpace(Ch(s, Len(s))) THEN RStrip(SubSeq(s, 1, Len(s) - 1)) ELSE s

Strip(s) == LStrip(RStrip(s))

IsDigitCh(c) == c \in {"0", "1", "2", "3", "4", "5", "6", "7", "8", "9"}

\* s.isdigit(): non-empty and every character a digit
IsDigit(s) == s # "" /\ \A i \in 1..Len(s) : IsDigitCh(Ch(s, i))

\* str(n) for the line numbers the messages print
RECURSIVE Str(_)
Str(n) ==
  IF n < 10
    THEN Ch("0123456789", n + 1)
    ELSE Str(n \div 10) \o Ch("0123456789", (n % 10) + 1)

\* sep.join(parts)
RECURSIVE JoinStr(_, _)
JoinStr(parts, sep) ==
  IF parts = <<>> THEN ""
  ELSE IF Len(parts) = 1 THEN parts[1]
  ELSE parts[1] \o sep \o JoinStr(Tail(parts), sep)

\* [x for x in parts if keep]
RECURSIVE NonEmpty(_)
NonEmpty(parts) ==
  IF parts = <<>> THEN <<>>
  ELSE IF parts[1] = "" THEN NonEmpty(Tail(parts))
  ELSE <<parts[1]>> \o NonEmpty(Tail(parts))

\* os.path.basename
basename(p) == SubSeq(p, RFind(p, "/") + 1, Len(p))

RECURSIVE RStripSlash(_)
RStripSlash(s) == IF EndsWith(s, "/") THEN RStripSlash(SubSeq(s, 1, Len(s) - 1)) ELSE s

\* the head of a path up to its last separator, trailing separators stripped
\* unless it is made of separators only
DirnameHead(head) ==
  IF head # "" /\ \E k \in 1..Len(head) : Ch(head, k) # "/"
    THEN RStripSlash(head)
    ELSE head

\* os.path.dirname
dirname(p) == DirnameHead(SubSeq(p, 1, RFind(p, "/")))

\* os.path.join for two arguments
join(a, b) ==
  IF StartsWith(b, "/") THEN b
  ELSE IF a = "" \/ EndsWith(a, "/") THEN a \o b
  ELSE a \o "/" \o b

\* the component loop of posixpath.normpath
RECURSIVE NormComps(_, _, _)
NormComps(comps, new, rooted) ==
  IF comps = <<>> THEN new
  ELSE LET c == comps[1] IN
    IF c \in {"", "."} THEN NormComps(Tail(comps), new, rooted)
    ELSE IF c # ".." \/ (~rooted /\ new = <<>>) \/ (new # <<>> /\ new[Len(new)] = "..")
      THEN NormComps(Tail(comps), Append(new, c), rooted)
    ELSE IF new # <<>>
      THEN NormComps(Tail(comps), SubSeq(new, 1, Len(new) - 1), rooted)
    ELSE NormComps(Tail(comps), new, rooted)

\* os.path.normpath: an empty result is "."
DotIfEmpty(out) == IF out = "" THEN "." ELSE out

\* os.path.normpath (POSIX)
normpath(p) ==
  IF p = "" THEN "."
  ELSE DotIfEmpty((IF StartsWith(p, "//") /\ ~StartsWith(p, "///") THEN "//"
                   ELSE IF StartsWith(p, "/") THEN "/" ELSE "")
                  \o JoinStr(NormComps(Split(p, "/"), <<>>, StartsWith(p, "/")), "/"))

\* the working directory of the process
Cwd == "/w"

\* os.path.abspath
abspath(p) == normpath(IF StartsWith(p, "/") THEN p ELSE join(Cwd, p))

\* the length of the common prefix of two component lists
RECURSIVE CommonLen(_, _)
CommonLen(a, b) ==
  IF a = <<>> \/ b = <<>> \/ a[1] # b[1] THEN 0 ELSE 1 + CommonLen(Tail(a), Tail(b))

\* the relative path from the components start_list to the components
\* path_list, which share their first i components
RelJoin(start_list, path_list, i) ==
  DotIfEmpty(JoinStr([k \in 1..(Len(start_list) - i) |-> ".."]
                       \o SubSeq(path_list, i + 1, Len(path_list)), "/"))

RelBetween(start_list, path_list) ==
  RelJoin(start_list, path_list, CommonLen(start_list, path_list))

\* os.path.relpath(path, start)
relpath(path, start) ==
  RelBetween(NonEmpty(Split(abspath(start), "/")), NonEmpty(Split(abspath(path), "/")))

\* the name up to its last dot at index dot, unless only dots precede it
SplitextAt(name, dot) ==
  IF dot > 0 /\ \E k \in 1..(dot - 1) : Ch(name, k) # "."
    THEN SubSeq(name, 1, dot - 1)
    ELSE name

\* os.path.splitext(name)[0] for a name without a directory part
SplitextRoot(name) == SplitextAt(name, RFind(name, "."))

(***************************************************************************)
(* The file system.  fs maps every existing path (absolute, normalized) to *)
(* its node: a directory, or a regular file with what a reader finds in    *)
(* it (a WAV header, lines of text, or neither).                           *)
(***************************************************************************)
DirNode == [kind |-> "dir", audio |-> FALSE, samplerate |-> 0, channels |-> 0,
            subtype |-> "", text |-> FALSE, lines |-> <<>>]

WavNode(sr, ch, st) == [kind |-> "file", audio |-> TRUE, samplerate |-> sr, channels |-> ch,
                        subtype |-> st, text |-> FALSE, lines |-> <<>>]

TextNode(ls) == [kind |-> "file", audio |-> FALSE, samplerate |-> 0, channels |-> 0,
                 subtype |-> "", text |-> TRUE, lines |-> ls]

BlobNode == [kind |-> "file", audio |-> FALSE, samplerate |-> 0, channels |-> 0,
             subtype |-> "", text |-> FALSE, lines |-> <<>>]

NoNode == [kind |-> "absent", audio |-> FALSE, samplerate |-> 0, channels |-> 0,
           subtype |-> "", text |-> FALSE, lines |-> <<>>]

\* the node at the absolute path q that the path p was resolved to, NoNode
\* when it names nothing; a path ending in "/" names only a directory
StatAt(f, p, q) ==
  IF q \in DOMAIN f /\ (EndsWith(p, "/") => f[q].kind = "dir") THEN f[q] ELSE NoNode

\* the node a path names (the path resolved against the working directory)
stat(f, p) == StatAt(f, p, abspath(p))

\* os.path.exists
exists(f, p) == stat(f, p).kind # "absent"

\* os.path.isdir
isdir(f, p) == stat(f, p).kind = "dir"

\* the exception os.listdir raises on a node of this kind, "" when it raises none
ListdirError(kind) ==
  IF kind = "absent" THEN "FileNotFoundError"
  ELSE IF kind # "dir" THEN "NotADirectoryError"
  ELSE ""

\* the exception os.listdir raises, "" when it raises none
listdir_exc(f, p) == ListdirError(stat(f, p).kind)

\* os.listdir: the names in a directory (the order of the list is arbitrary)
listdir(f, p) ==
  LET q == abspath(p)
  IN  {basename(k) : k \in {k \in DOMAIN f : k # "/" /\ dirname(k) = q}}

\* a list holding the members of a set, in the arbitrary order of a listing
RECURSIVE SeqOfSet(_)
SeqOfSet(S) ==
  IF S = {} THEN <<>>
  ELSE LET x == CHOOSE x \in S : TRUE IN <<x>> \o SeqOfSet(S \ {x})

\* the exception reading the lines of a node raises, "" for none
ReadError(n) ==
  IF n.kind = "absent" THEN "FileNotFoundError"
  ELSE IF n.kind = "dir" THEN "IsADirectoryError"
  ELSE IF ~n.text THEN "UnicodeDecodeError"
  ELSE ""

\* open(path, "r", encoding="utf-8-sig").readlines(): the exception, "" for none
read_exc(f, p) == ReadError(stat(f, p))

readlines(f, p) == stat(f, p).lines

(***************************************************************************)
(* LogicChecker                                                            *)
(***************************************************************************)
\* LogicChecker.collect_files
collect_files(f, folder, ext) ==
  IF listdir_exc(f, folder) # "" THEN {}
  ELSE {n \in listdir(f, folder) : EndsWith(Lower(n), Lower(ext))}

RequiredSampleRate == 96000

RequiredChannels == 2

\* the errors list of check_wav_format for the header n
wav_errors(n) ==
  (IF n.samplerate # RequiredSampleRate
     THEN <<"samplerate " \o Str(n.samplerate) \o " != 96000">> ELSE <<>>)
  \o (IF n.channels # RequiredChannels
        THEN <<"channels " \o Str(n.channels) \o " != 2">> ELSE <<>>)
  \o (IF n.subtype # "PCM_24"
        THEN <<"subtype " \o n.subtype \o " != PCM_24">> ELSE <<>>)

\* a message that names the first violated field only (a variant that C13
\* must tell from the code)
wav_message_FirstOnly(errors) ==
  IF errors # <<>> THEN "[AudioFormatError] (" \o errors[1] \o ")" ELSE ""

\* lines 31-33: the errors joined into one message, "" for None
wav_message(errors) ==
  IF errors # <<>> THEN "[AudioFormatError] (" \o JoinStr(errors, "; ") \o ")" ELSE ""

\* check_wav_format on the node the path names
wav_checked(n) ==
  IF ~n.audio THEN "[CannotReadWAV] (" \o "format not recognised" \o ")"
  ELSE wav_message(wav_errors(n))

\* LogicChecker.check_wav_format: the message, "" for None
check_wav_format(f, wav_path) == wav_checked(stat(f, wav_path))

\* add_error with the normalization of line 101 left out (a variant that C10
\* must tell from the code)
add_error_RawKey(error_map, path, msg) ==
  IF path \in DOMAIN error_map
    THEN [error_map EXCEPT ![path] = Append(@, msg)]
    ELSE error_map @@ (path :> <<msg>>)

\* lines 102-104: the message appended to the list of the key
append_error(error_map, key, msg) ==
  IF key \in DOMAIN error_map
    THEN [error_map EXCEPT ![key] = Append(@, msg)]
    ELSE error_map @@ (key :> <<msg>>)

\* add_error keyed on the last component of the path only (a variant that
\* C11 must tell from the code)
add_error_NameKey(error_map, path, msg) ==
  append_error(error_map, basename(normpath(abspath(path))), msg)

\* check_song_folder.add_error
add_error(error_map, path, msg) == append_error(error_map, normpath(abspath(path)), msg)

\* add_error called for each <<path, msg>> of a list, in order
RECURSIVE add_errors(_, _)
add_errors(error_map, calls) ==
  IF calls = <<>> THEN error_map
  ELSE add_errors(add_error(error_map, calls[1][1], calls[1][2]), Tail(calls))

\* the calls of one loop: body(x) is the list of add_error calls made for x
RECURSIVE Flatten(_)
Flatten(lists) == IF lists = <<>> THEN <<>> ELSE lists[1] \o Flatten(Tail(lists))

ForEach(xs, body(_)) == Flatten([i \in DOMAIN xs |-> body(xs[i])])

\* the add_error call for a format message, none for no message
fmt_calls(path, fmt_err) == IF fmt_err # "" THEN <<<<path, fmt_err>>>> ELSE <<>>

\* the loop body with the content validator run on every file of the right
\* extension, recognized or not (a variant that C22 must tell from the code)
dir_item_calls_at_ValidatesAll(f, ext, valid_set, has_callback, item, item_path) ==
  IF isdir(f, item_path)
    THEN <<<<item_path, "[ExtraFolder] " \o item>>>>
  ELSE IF ~EndsWith(Lower(item), Lower(ext))
    THEN <<<<item_path, "[ExtraFile/FormatError] " \o item>>>>
  ELSE (IF item \notin valid_set THEN <<<<item_path, "[ExtraFile] " \o item>>>> ELSE <<>>)
       \o (IF has_callback THEN fmt_calls(item_path, check_wav_format(f, item_path)) ELSE <<>>)

\* the loop body with entries whose names start with "." passed over, as at
\* the top level (a variant that C27 must tell from the code)
dir_item_calls_at_SkipsHidden(f, ext, valid_set, has_callback, item, item_path) ==
  IF StartsWith(item, ".") THEN <<>>
  ELSE IF isdir(f, item_path)
    THEN <<<<item_path, "[ExtraFolder] " \o item>>>>
  ELSE IF ~EndsWith(Lower(item), Lower(ext))
    THEN <<<<item_path, "[ExtraFile/FormatError] " \o item>>>>
  ELSE IF item \notin valid_set
    THEN <<<<item_path, "[ExtraFile] " \o item>>>>
  ELSE IF has_callback
    THEN fmt_calls(item_path, check_wav_format(f, item_path))
  ELSE <<>>

\* the add_error calls for one item of all_items, at item_path
dir_item_calls_at(f, ext, valid_set, has_callback, item, item_path) ==
  IF isdir(f, item_path)
    THEN <<<<item_path, "[ExtraFolder] " \o item>>>>
  ELSE IF ~EndsWith(Lower(item), Lower(ext))
    THEN <<<<item_path, "[ExtraFile/FormatError] " \o item>>>>
  ELSE IF item \notin valid_set
    THEN <<<<item_path, "[ExtraFile] " \o item>>>>
  ELSE IF has_callback
    THEN fmt_calls(item_path, check_wav_format(f, item_path))
  ELSE <<>>

\* the add_error calls of the loop over all_items in _validate_dir_contents
dir_item_calls(f, folder_path, ext, valid_set, has_callback, item) ==
  dir_item_calls_at(f, ext, valid_set, has_callback, item, join(folder_path, item))

\* _validate_dir_contents reporting a missing file on the path the file would
\* have instead of on the folder (a variant that C5 must tell from the code)
validate_dir_contents_PerFileKey(f, error_map, folder_path, ext, expected_files, allowed_files, has_callback) ==
  IF stat(f, folder_path).kind = "absent" THEN [error_map |-> error_map, exc |-> ""]
  ELSE
    LET names == IF stat(f, folder_path).kind = "dir" THEN listdir(f, folder_path) ELSE {}
        existing_files == {n \in names : EndsWith(Lower(n), Lower(ext))}
        Missing(exp) == IF exp \notin existing_files
                          THEN <<<<join(folder_path, exp), "[MissingFile] " \o exp>>>>
                          ELSE <<>>
        em1       == add_errors(error_map, ForEach(expected_files, Missing))
        valid_set == {expected_files[i] : i \in DOMAIN expected_files}
                       \cup {allowed_files[i] : i \in DOMAIN allowed_files}
        Item(item) == dir_item_calls(f, folder_path, ext, valid_set, has_callback, item)
        exc == listdir_exc(f, folder_path)
    IN  IF exc # ""
          THEN [error_map |-> em1, exc |-> exc]
          ELSE [error_map |-> add_errors(em1, ForEach(SeqOfSet(names), Item)), exc |-> ""]

\* "2." with the names compared without regard to letter case (a variant
\* that C23 must tell from the code)
missing_calls_AnyCase(folder_path, expected_files, existing_files) ==
  LET Missing(exp) == IF Lower(exp) \notin {Lower(n) : n \in existing_files}
                        THEN <<<<folder_path, "[MissingFile] " \o exp>>>> ELSE <<>>
  IN  ForEach(expected_files, Missing)

\* "2." of _validate_dir_contents: the add_error calls for the missing files
missing_calls(folder_path, expected_files, existing_files) ==
  LET Missing(exp) == IF exp \notin existing_files
                        THEN <<<<folder_path, "[MissingFile] " \o exp>>>> ELSE <<>>
  IN  ForEach(expected_files, Missing)

\* "3." of _validate_dir_contents, from the error map em1 that "2." left and
\* the exception exc of os.listdir(folder_path)
validate_listing(f, em1, folder_path, ext, valid_set, has_callback, exc) ==
  IF exc # "" THEN [error_map |-> em1, exc |-> exc]
  ELSE LET Item(item) == dir_item_calls(f, folder_path, ext, valid_set, has_callback, item)
       IN  [error_map |-> add_errors(em1, ForEach(SeqOfSet(listdir(f, folder_path)), Item)),
            exc |-> ""]

\* LogicChecker._validate_dir_contents: the error map after it and the
\* exception that escapes it ("" for none)
validate_dir_contents(f, error_map, folder_path, ext, expected_files, allowed_files, has_callback) ==
  IF ~exists(f, folder_path) THEN [error_map |-> error_map, exc |-> ""]
  ELSE validate_listing(
         f,
         add_errors(error_map, missing_calls(folder_path, expected_files,
                                             collect_files(f, folder_path, ext))),
         folder_path, ext,
         {expected_files[i] : i \in DOMAIN expected_files}
           \cup {allowed_files[i] : i \in DOMAIN allowed_files},
         has_callback,
         listdir_exc(f, folder_path))

\* re.match(r"^(.+?)_(.+?)_(.+?)$", item): the positions <<i, j>> of the two
\* underscores that delimit the groups in every way the pattern can match.
\* "." does not match a newline and "$" also matches before a final newline.
NameBody(item) == IF EndsWith(item, "\n") THEN SubSeq(item, 1, Len(item) - 1) ELSE item

NameSplits(item) ==
  LET t == NameBody(item)
  IN  IF Contains(t, "\n") THEN {}
      ELSE {ij \in (2..Len(t)) \X (4..Len(t)) :
              /\ ij[1] + 2 <= ij[2]
              /\ ij[2] + 1 <= Len(t)
              /\ Ch(t, ij[1]) = "_"
              /\ Ch(t, ij[2]) = "_"}

\* the match the non-greedy groups settle on: the shortest first group, then
\* the shortest second group
NameSplit(item) ==
  CHOOSE ij \in NameSplits(item) :
    \A kl \in NameSplits(item) : ij[1] < kl[1] \/ (ij[1] = kl[1] /\ ij[2] <= kl[2])

\* group 2 of the match ij on t
Group2(t, ij) == SubSeq(t, ij[1] + 1, ij[2] - 1)

\* check_song_folder, "1.": the song name used by the filename templates
song_name_of(item) ==
  IF NameSplits(item) = {} THEN item ELSE Group2(NameBody(item), NameSplit(item))

expected_folders == <<"fenguiwav", "zongguiwav", "midi", "csv", "hunyingongcheng">>

track_required_suffixes == <<"Vocal_A", "Vocal_B", "Vocal_A(gansheng)", "Vocal_B(gansheng)">>

track_allowed_suffixes == <<"BASS", "DR", "GTR", "PNO", "OTHER", "BG", "BG(gansheng)">>

allowed_daw_exts == {".flp", ".logicx", ".cpr"}

allowed_labels == {"Intro", "Verse", "Chorus", "Bridge", "Outro"}

InstrCsvName == "yueqiyinyuan.csv"

\* [f"{song_name}_{s}.wav" for s in suffixes]
Templated(song_name, suffixes, ext) ==
  [i \in DOMAIN suffixes |-> song_name \o "_" \o suffixes[i] \o ext]

\* a call frame of check_song_folder: its argument, its locals and where it is
NewFrame(song_path) ==
  [pc |-> "name", song_path |-> song_path, song_name |-> "",
   error_map |-> <<>>, exc |-> ""]

IdleFrame == [pc |-> "idle", song_path |-> "", song_name |-> "",
              error_map |-> <<>>, exc |-> ""]

\* after a callee returned r = [error_map, exc]: go on at pc next, or raise
After(fr, r, next) ==
  IF r.exc # ""
    THEN [fr EXCEPT !.error_map = r.error_map, !.exc = r.exc, !.pc = "raised"]
    ELSE [fr EXCEPT !.error_map = r.error_map, !.pc = next]

\* "1." without the fallback of line 112 (a variant that C1 must tell from the
\* code)
StepName_NoFallback(f, fr) ==
  LET item == basename(fr.song_path)
  IN  IF NameSplits(item) = {}
        THEN [fr EXCEPT !.error_map = add_error(fr.error_map, fr.song_path,
                                        "[NamingError] folder must be author_song_transcriber"),
                        !.song_name = "",
                        !.pc = "toplevel"]
        ELSE [fr EXCEPT !.song_name = song_name_of(item), !.pc = "toplevel"]

\* check_song_folder, "1." the folder name
StepName(f, fr) ==
  LET item == basename(fr.song_path)
  IN  IF NameSplits(item) = {}
        THEN [fr EXCEPT !.error_map = add_error(fr.error_map, fr.song_path,
                                        "[NamingError] folder must be author_song_transcriber"),
                        !.song_name = item,
                        !.pc = "toplevel"]
        ELSE [fr EXCEPT !.song_name = song_name_of(item), !.pc = "toplevel"]

\* "2." taking a regular file for the directory it is named after, so that only
\* directories count as present (a variant that C2 must tell from the code)
StepTopLevel_DirsOnly(f, fr) ==
  LET exc == listdir_exc(f, fr.song_path)
      existing == listdir(f, fr.song_path)
      Missing(folder) == IF ~isdir(f, join(fr.song_path, folder))
                           THEN <<<<fr.song_path, "[MissingDir] missing " \o folder>>>>
                           ELSE <<>>
      Extra(x) == IF x \notin {expected_folders[i] : i \in DOMAIN expected_folders}
                     /\ ~StartsWith(x, ".")
                    THEN <<<<join(fr.song_path, x), "[ExtraItem] " \o x>>>>
                    ELSE <<>>
  IN  IF exc = "FileNotFoundError" THEN [fr EXCEPT !.pc = "return"]
      ELSE IF exc # "" THEN [fr EXCEPT !.exc = exc, !.pc = "raised"]
      ELSE [fr EXCEPT !.error_map =
                        add_errors(add_errors(fr.error_map, ForEach(expected_folders, Missing)),
                                   ForEach(SeqOfSet(existing), Extra)),
                      !.pc = "stems"]

\* "2." without the exemption of names that start with "." (a variant that
\* C19 must tell from the code)
top_level_listed_FlagsHidden(f, fr, exc) ==
  LET existing == listdir(f, fr.song_path)
      Missing(folder) == IF folder \notin existing
                           THEN <<<<fr.song_path, "[MissingDir] missing " \o folder>>>>
                           ELSE <<>>
      Extra(x) == IF x \notin {expected_folders[i] : i \in DOMAIN expected_folders}
                    THEN <<<<join(fr.song_path, x), "[ExtraItem] " \o x>>>>
                    ELSE <<>>
  IN  IF exc = "FileNotFoundError" THEN [fr EXCEPT !.pc = "return"]
      ELSE IF exc # "" THEN [fr EXCEPT !.exc = exc, !.pc = "raised"]
      ELSE [fr EXCEPT !.error_map =
                        add_errors(add_errors(fr.error_map, ForEach(expected_folders, Missing)),
                                   ForEach(SeqOfSet(existing), Extra)),
                      !.pc = "stems"]

\* "2." from the outcome exc of os.listdir(song_path)
top_level_listed(f, fr, exc) ==
  LET existing == listdir(f, fr.song_path)
      Missing(folder) == IF folder \notin existing
                           THEN <<<<fr.song_path, "[MissingDir] missing " \o folder>>>>
                           ELSE <<>>
      Extra(x) == IF x \notin {expected_folders[i] : i \in DOMAIN expected_folders}
                     /\ ~StartsWith(x, ".")
                    THEN <<<<join(fr.song_path, x), "[ExtraItem] " \o x>>>>
                    ELSE <<>>
  IN  IF exc = "FileNotFoundError" THEN [fr EXCEPT !.pc = "return"]
      ELSE IF exc # "" THEN [fr EXCEPT !.exc = exc, !.pc = "raised"]
      ELSE [fr EXCEPT !.error_map =
                        add_errors(add_errors(fr.error_map, ForEach(expected_folders, Missing)),
                                   ForEach(SeqOfSet(existing), Extra)),
                      !.pc = "stems"]

\* check_song_folder, "2." the first-level structure
StepTopLevel(f, fr) == top_level_listed(f, fr, listdir_exc(f, fr.song_path))

\* check_song_folder, "3." the stems
StepStems(f, fr) ==
  After(fr, validate_dir_contents(f, fr.error_map, join(fr.song_path, "fenguiwav"), ".wav",
                                  Templated(fr.song_name, track_required_suffixes, ".wav"),
                                  Templated(fr.song_name, track_allowed_suffixes, ".wav"),
                                  TRUE),
        "mix")

\* check_song_folder, "4." the mixdown
StepMix(f, fr) ==
  After(fr, validate_dir_contents(f, fr.error_map, join(fr.song_path, "zongguiwav"), ".wav",
                                  Templated(fr.song_name, <<"Mix_A", "Mix_B">>, ".wav"),
                                  <<>>, TRUE),
        "midi")

\* check_song_folder, "5." MIDI
StepMidi(f, fr) ==
  After(fr, validate_dir_contents(f, fr.error_map, join(fr.song_path, "midi"), ".mid",
                                  Templated(fr.song_name, <<"Vocal_midi", "Mix_midi">>, ".mid"),
                                  Templated(fr.song_name, <<"BG_midi">>, ".mid"),
                                  FALSE),
        "csv")

\* check_song_folder, "6." CSV
StepCsv(f, fr) ==
  After(fr, validate_dir_contents(f, fr.error_map, join(fr.song_path, "csv"), ".csv",
                                  Templated(fr.song_name, <<"Beat", "Structure">>, ".csv"),
                                  <<>>, FALSE),
        "beat")

\* the lines after the first as <<idx, line>>: enumerate(lines[1:], start=2)
DataRows(lines) == [k \in 1..(Len(lines) - 1) |-> <<k + 1, Strip(lines[k + 1])>>]

\* the _Beat.csv check without the skip of blank lines of lines 220-221 (a
\* variant that C15 must tell from the code)
beat_calls_NoSkip(beat_path, lines) ==
  LET Row(r) ==
        (IF Len(Split(r[2], ",")) # 2
           THEN <<<<beat_path, "[ColumnCountError] line " \o Str(r[1]) \o " is not 2 columns">>>>
           ELSE <<>>)
        \o
        (IF r[1] = 2 /\ (Contains(Lower(r[2]), "time") \/ Contains(Lower(r[2]), "label"))
           THEN <<<<beat_path, "[ContentError] line " \o Str(r[1]) \o " looks like a repeated header">>>>
           ELSE <<>>)
  IN  IF lines = <<>> THEN <<<<beat_path, "[ContentError] file is empty">>>>
      ELSE (IF Strip(lines[1]) # "TIME,LABEL"
              THEN <<<<beat_path, "[HeaderError] must be exactly TIME,LABEL">>>>
              ELSE <<>>)
           \o ForEach(DataRows(lines), Row)

\* the add_error calls of the _Beat.csv check for the lines read
beat_calls(beat_path, lines) ==
  LET Row(r) ==
        IF r[2] = "" THEN <<>>
        ELSE (IF Len(Split(r[2], ",")) # 2
                THEN <<<<beat_path, "[ColumnCountError] line " \o Str(r[1]) \o " is not 2 columns">>>>
                ELSE <<>>)
             \o
             (IF r[1] = 2 /\ (Contains(Lower(r[2]), "time") \/ Contains(Lower(r[2]), "label"))
                THEN <<<<beat_path, "[ContentError] line " \o Str(r[1]) \o " looks like a repeated header">>>>
                ELSE <<>>)
  IN  IF lines = <<>> THEN <<<<beat_path, "[ContentError] file is empty">>>>
      ELSE (IF Strip(lines[1]) # "TIME,LABEL"
              THEN <<<<beat_path, "[HeaderError] must be exactly TIME,LABEL">>>>
              ELSE <<>>)
           \o ForEach(DataRows(lines), Row)

\* a content check of a CSV file at path: skipped when the file is not
\* present, a read error when reading raised rexc, else the add_error calls
\* made for the lines read
csv_checked(fr, path, present, rexc, calls, next) ==
  IF ~present THEN [fr EXCEPT !.pc = next]
  ELSE IF rexc # ""
    THEN [fr EXCEPT !.error_map = add_error(fr.error_map, path, "[ReadError] " \o rexc),
                    !.pc = next]
  ELSE [fr EXCEPT !.error_map = add_errors(fr.error_map, calls), !.pc = next]

beat_checked(f, fr, beat_path) ==
  csv_checked(fr, beat_path, exists(f, beat_path), read_exc(f, beat_path),
              beat_calls(beat_path, readlines(f, beat_path)), "structure")

\* check_song_folder, the stricter _Beat.csv check
StepBeat(f, fr) ==
  beat_checked(f, fr, join(join(fr.song_path, "csv"), fr.song_name \o "_Beat.csv"))

\* [h.strip() for h in line.split(",") if h.strip()]
StrippedCells(line) ==
  LET cells == Split(line, ",")
  IN  NonEmpty([i \in DOMAIN cells |-> Strip(cells[i])])

\* re.match(r"^\d{2}:\d{2}$", t) for a stripped t
TimeOk(t) ==
  /\ Len(t) = 5
  /\ IsDigitCh(Ch(t, 1)) /\ IsDigitCh(Ch(t, 2))
  /\ Ch(t, 3) = ":"
  /\ IsDigitCh(Ch(t, 4)) /\ IsDigitCh(Ch(t, 5))

\* the add_error calls for the content row idx with the cells parts
structure_row_calls(structure_path, header_labels, idx, parts) ==
  LET Cell(t) == IF ~TimeOk(t)
                   THEN <<<<structure_path, "[TimeFormatError] line " \o Str(idx)
                                              \o " " \o t \o " should be mm:ss">>>>
                   ELSE <<>>
  IN  (IF Len(parts) # Len(header_labels)
         THEN <<<<structure_path, "[ColumnCountError] line " \o Str(idx) \o " should have "
                                    \o Str(Len(header_labels)) \o " columns">>>>
         ELSE <<>>)
      \o ForEach(parts, Cell)

\* the check of a non-empty _Structure.csv with the labels compared without
\* regard to letter case (a variant that C16 must tell from the code)
structure_lines_calls_AnyCase(structure_path, lines, header_labels) ==
  LET Label(h) == IF Lower(h) \notin {Lower(a) : a \in allowed_labels}
                    THEN <<<<structure_path, "[HeaderError] " \o h \o " not an allowed section type">>>>
                    ELSE <<>>
      Row(r) == IF r[2] = "" THEN <<>>
                ELSE structure_row_calls(structure_path, header_labels, r[1],
                                         StrippedCells(r[2]))
  IN  (IF header_labels = <<>>
         THEN <<<<structure_path, "[HeaderError] must not be empty">>>>
         ELSE <<>>)
      \o ForEach(header_labels, Label)
      \o ForEach(DataRows(lines), Row)

\* the add_error calls for a non-empty file with the header cells header_labels
structure_lines_calls(structure_path, lines, header_labels) ==
  LET Label(h) == IF h \notin allowed_labels
                    THEN <<<<structure_path, "[HeaderError] " \o h \o " not an allowed section type">>>>
                    ELSE <<>>
      Row(r) == IF r[2] = "" THEN <<>>
                ELSE structure_row_calls(structure_path, header_labels, r[1],
                                         StrippedCells(r[2]))
  IN  (IF header_labels = <<>>
         THEN <<<<structure_path, "[HeaderError] must not be empty">>>>
         ELSE <<>>)
      \o ForEach(header_labels, Label)
      \o ForEach(DataRows(lines), Row)

\* the add_error calls of the _Structure.csv check for the lines read
structure_calls(structure_path, lines) ==
  IF lines = <<>> THEN <<<<structure_path, "[ContentError] file is empty">>>>
  ELSE structure_lines_calls(structure_path, lines, StrippedCells(Strip(lines[1])))

\* the _Structure.csv check for the file at structure_path
structure_checked(f, fr, structure_path) ==
  csv_checked(fr, structure_path, exists(f, structure_path), read_exc(f, structure_path),
              structure_calls(structure_path, readlines(f, structure_path)), "daw")

\* check_song_folder, the stricter _Structure.csv check
StepStructure(f, fr) ==
  structure_checked(f, fr, join(join(fr.song_path, "csv"), fr.song_name \o "_Structure.csv"))

\* item_lower.endswith(allowed_daw_exts)
IsDawName(item) == LET item_lower == Lower(item)
                   IN  \E e \in allowed_daw_exts : EndsWith(item_lower, e)

IsWavName(item) == EndsWith(Lower(item), ".wav")

\* the first loop of "7.": found_wavs, found_daw_files, found_csv
found_wavs(f, root, all_items) ==
  {x \in all_items : IsWavName(x) /\ ~isdir(f, join(root, x))}

\* found_daw_files with the suffixes compared as written, not lower-cased (a
\* variant that C20 must tell from the code)
found_daw_files_CaseSensitive(all_items) ==
  {x \in all_items : ~IsWavName(x) /\ \E e \in {".flp", ".logicx", ".cpr"} : EndsWith(x, e)}

found_daw_files(all_items) ==
  {x \in all_items : ~IsWavName(x) /\ IsDawName(x)}

found_csv(f, root, all_items) ==
  \E x \in all_items :
    ~IsWavName(x) /\ ~IsDawName(x) /\ x = InstrCsvName /\ ~isdir(f, join(root, x))

\* the add_error calls of the first loop of "7." for one item
daw_item_calls(f, root, item) ==
  LET item_path == join(root, item)
  IN  IF IsWavName(item)
        THEN IF isdir(f, item_path)
               THEN <<<<item_path, "[ExtraFolder] " \o item \o " (WAV must not be a folder)">>>>
               ELSE <<>>
      ELSE IF IsDawName(item) THEN <<>>
      ELSE IF item = InstrCsvName
        THEN IF isdir(f, item_path)
               THEN <<<<item_path, "[TypeError] " \o item \o " must not be a folder">>>>
               ELSE <<>>
      ELSE <<<<item_path, (IF isdir(f, item_path) THEN "[ExtraFolder] " ELSE "[ExtraFile] ")
                            \o item>>>>

\* the add_error calls of the check of yueqiyinyuan.csv for the lines read
instr_calls(instr_map_path, lines) ==
  LET Row(r) ==
        IF r[2] # "" /\ Len(Split(r[2], ",")) # 2
          THEN <<<<instr_map_path, "[ColumnCountError] line " \o Str(r[1]) \o " is not 2 columns">>>>
          ELSE <<>>
  IN  IF lines = <<>> THEN <<<<instr_map_path, "[ContentError] file is empty">>>>
      ELSE (IF Strip(lines[1]) # "yueqi,yinyuan"
              THEN <<<<instr_map_path, "[HeaderError] must be exactly yueqi,yinyuan">>>>
              ELSE <<>>)
           \o ForEach(DataRows(lines), Row)

\* "4.2": what is left of a WAV name after the song name and the extension
content_part(song_name, wav_file) ==
  LET root == SplitextRoot(wav_file)
  IN  SubSeq(root, Len(song_name) + 2, Len(root))

\* the test of the take index with an empty text after the last underscore
\* taken for a number (a variant that C25 must tell from the code)
has_take_index_EmptyTail(c) ==
  Contains(c, "_") /\ \A i \in (RFind(c, "_") + 1)..Len(c) : IsDigitCh(Ch(c, i))

\* content_part.rsplit("_", 1) and last.isdigit(), for the content part c
has_take_index(c) == Contains(c, "_") /\ IsDigit(SubSeq(c, RFind(c, "_") + 1, Len(c)))

has_num(song_name, wav_file) == has_take_index(content_part(song_name, wav_file))

\* the instrument name in the content part c
instrument_of(c) == IF has_take_index(c) THEN SubSeq(c, 1, RFind(c, "_") - 1) ELSE c

inst_name(song_name, wav_file) == instrument_of(content_part(song_name, wav_file))

\* the WAVs that reach instrument_groups
grouped_wavs(wavs, song_name) ==
  {w \in wavs : StartsWith(w, song_name \o "_") /\ inst_name(song_name, w) # ""}

\* "4.1" and "4.2" with the prefix test made before the format check, so
\* that a file failing it is not checked further (a variant that C24 must
\* tell from the code)
daw_wav_calls_at_PrefixFirst(f, song_name, wav_file, wav_full_path) ==
  IF ~StartsWith(wav_file, song_name \o "_")
    THEN <<<<wav_full_path, "[NamingError] file must start with song name '"
                              \o song_name \o "_'">>>>
  ELSE fmt_calls(wav_full_path, check_wav_format(f, wav_full_path))
       \o (IF inst_name(song_name, wav_file) = ""
             THEN <<<<wav_full_path, "[FormatError] instrument name must not be empty">>>>
             ELSE <<>>)

\* the add_error calls of "4.1" and "4.2" for the WAV at wav_full_path
daw_wav_calls_at(f, song_name, wav_file, wav_full_path) ==
  fmt_calls(wav_full_path, check_wav_format(f, wav_full_path))
  \o
  (IF ~StartsWith(wav_file, song_name \o "_")
     THEN <<<<wav_full_path, "[NamingError] file must start with song name '"
                               \o song_name \o "_'">>>>
   ELSE IF inst_name(song_name, wav_file) = ""
     THEN <<<<wav_full_path, "[FormatError] instrument name must not be empty">>>>
   ELSE <<>>)

\* the add_error calls of "4.1" and "4.2" for one WAV
daw_wav_calls(f, root, song_name, wav_file) ==
  daw_wav_calls_at(f, song_name, wav_file, join(root, wav_file))

\* "4.3" flagging every indexed track, also in a group of several (a variant
\* that C6 must tell from the code)
daw_group_calls_AnyCount(root, song_name, grouped, wav_file) ==
  LET name  == inst_name(song_name, wav_file)
      count == Cardinality({w \in grouped : inst_name(song_name, w) = name})
  IN  IF count >= 1 /\ has_num(song_name, wav_file)
        THEN <<<<join(root, wav_file), "[NamingRedundant] instrument '" \o name
                                         \o "' has one track, no index allowed">>>>
      ELSE IF count > 1 /\ ~has_num(song_name, wav_file)
        THEN <<<<join(root, wav_file), "[NamingMissing] instrument '" \o name \o "' has "
                                         \o Str(count) \o " tracks, index required">>>>
      ELSE <<>>

\* "4.3" for one track of the instrument name, which has count tracks
group_calls(path, name, count, indexed) ==
  IF count = 1 /\ indexed
    THEN <<<<path, "[NamingRedundant] instrument '" \o name
                     \o "' has one track, no index allowed">>>>
  ELSE IF count > 1 /\ ~indexed
    THEN <<<<path, "[NamingMissing] instrument '" \o name \o "' has "
                     \o Str(count) \o " tracks, index required">>>>
  ELSE <<>>

\* the number of all grouped WAVs taken for the size of each group (a variant
\* that C18 must tell from the code)
group_count_AllWavs(song_name, grouped, name) == Cardinality(grouped)

\* len(items) of the group of the instrument name
group_count(song_name, grouped, name) ==
  Cardinality({w \in grouped : inst_name(song_name, w) = name})

daw_group_named(root, song_name, grouped, wav_file, name) ==
  group_calls(join(root, wav_file), name, group_count(song_name, grouped, name),
              has_num(song_name, wav_file))

\* the add_error calls of "4.3" for one grouped WAV
daw_group_calls(root, song_name, grouped, wav_file) ==
  daw_group_named(root, song_name, grouped, wav_file, inst_name(song_name, wav_file))

\* check_song_folder, "7." the DAW project folder
\* the second step of "7.": a DAW project file must be there
daw_project_checked(root, all_items, em1) ==
  IF found_daw_files(all_items) = {}
    THEN add_error(em1, root, "[MissingFile] missing DAW project file (.flp / .logicx / .cpr)")
    ELSE em1

\* the content check of the instrument table read at instr_map_path
instr_checked(em2, instr_map_path, rexc, lines) ==
  IF rexc # "" THEN add_error(em2, instr_map_path, "[ReadError] " \o rexc)
  ELSE add_errors(em2, instr_calls(instr_map_path, lines))

instr_checked_at(f, em2, instr_map_path) ==
  instr_checked(em2, instr_map_path, read_exc(f, instr_map_path),
                readlines(f, instr_map_path))

\* the third step of "7.": the instrument table
daw_csv_checked(f, root, all_items, em2) ==
  IF ~found_csv(f, root, all_items)
    THEN add_error(em2, root, "[MissingFile] missing " \o InstrCsvName)
    ELSE instr_checked_at(f, em2, join(root, InstrCsvName))

\* "4.3": the groups of the WAVs that were grouped
daw_groups_checked(root, song_name, em4, grouped) ==
  LET Group(w) == daw_group_calls(root, song_name, grouped, w)
  IN  add_errors(em4, ForEach(SeqOfSet(grouped), Group))

\* the fourth step of "7.": the WAVs found
daw_wavs_checked(f, root, song_name, em3, wavs) ==
  LET Wav(w) == daw_wav_calls(f, root, song_name, w)
  IN  daw_groups_checked(root, song_name, add_errors(em3, ForEach(SeqOfSet(wavs), Wav)),
                         grouped_wavs(wavs, song_name))

\* the error map after "7." for the listing all_items of the folder root
daw_errors(f, fr, root, all_items) ==
  LET Item(x) == daw_item_calls(f, root, x)
  IN  daw_wavs_checked(
        f, root, fr.song_name,
        daw_csv_checked(f, root, all_items,
          daw_project_checked(root, all_items,
            add_errors(fr.error_map, ForEach(SeqOfSet(all_items), Item)))),
        found_wavs(f, root, all_items))

\* "7." for the folder root, which names a node of this kind
daw_checked(f, fr, root, kind) ==
  IF kind = "absent" THEN [fr EXCEPT !.pc = "return"]
  ELSE IF kind # "dir"
    THEN [fr EXCEPT !.exc = "NotADirectoryError", !.pc = "raised"]
  ELSE [fr EXCEPT !.error_map = daw_errors(f, fr, root, listdir(f, root)), !.pc = "return"]

daw_folder(f, fr, root) == daw_checked(f, fr, root, stat(f, root).kind)

\* check_song_folder, "7." the DAW project folder
StepDaw(f, fr) == daw_folder(f, fr, join(fr.song_path, "hunyingongcheng"))

\* one step of a running call of check_song_folder
Step(f, fr) ==
  CASE fr.pc = "name"      -> StepName(f, fr)
    [] fr.pc = "toplevel"  -> StepTopLevel(f, fr)
    [] fr.pc = "stems"     -> StepStems(f, fr)
    [] fr.pc = "mix"       -> StepMix(f, fr)
    [] fr.pc = "midi"      -> StepMidi(f, fr)
    [] fr.pc = "csv"       -> StepCsv(f, fr)
    [] fr.pc = "beat"      -> StepBeat(f, fr)
    [] fr.pc = "structure" -> StepStructure(f, fr)
    [] fr.pc = "daw"       -> StepDaw(f, fr)

Running(fr) == fr.pc \notin {"idle", "return", "raised"}

RECURSIVE RunFrame(_, _)
RunFrame(f, fr) == IF Running(fr) THEN RunFrame(f, Step(f, fr)) ELSE fr

\* LogicChecker.check_song_folder as one call on an unchanging file system:
\* the frame it ends in (pc "return" with the report, or "raised")
check_song_folder(f, song_path) == RunFrame(f, NewFrame(song_path))

(***************************************************************************)
(* The song folders the checks run on: a folder that obeys every rule, or  *)
(* the folder of the end-to-end example, changed in at most MaxEdits       *)
(* places.  A tree maps the paths below a song folder to their nodes.      *)
(***************************************************************************)
MaxEdits == 2

MaxCalls == 2

WorkspaceRoot == "/w"

GoodWav == WavNode(96000, 2, "PCM_24")

\* a folder for song name sn that obeys every rule
CompliantTree(sn) ==
  ("fenguiwav" :> DirNode)
  @@ [q \in {"fenguiwav/" \o sn \o "_" \o track_required_suffixes[i] \o ".wav" :
               i \in DOMAIN track_required_suffixes} |-> GoodWav]
  @@ ("zongguiwav" :> DirNode)
  @@ ("zongguiwav/" \o sn \o "_Mix_A.wav" :> GoodWav)
  @@ ("zongguiwav/" \o sn \o "_Mix_B.wav" :> GoodWav)
  @@ ("midi" :> DirNode)
  @@ ("midi/" \o sn \o "_Vocal_midi.mid" :> BlobNode)
  @@ ("midi/" \o sn \o "_Mix_midi.mid" :> BlobNode)
  @@ ("csv" :> DirNode)
  @@ ("csv/" \o sn \o "_Beat.csv" :> TextNode(<<"TIME,LABEL", "0.50,1">>))
  @@ ("csv/" \o sn \o "_Structure.csv" :> TextNode(<<"Intro,Verse", "00:00,00:30">>))
  @@ ("hunyingongcheng" :> DirNode)
  @@ ("hunyingongcheng/proj.flp" :> BlobNode)
  @@ ("hunyingongcheng/" \o InstrCsvName :> TextNode(<<"yueqi,yinyuan", "GTR,amp">>))

\* the folder of the end-to-end example: only the two vocal stems
ExampleTree(sn) ==
  ("fenguiwav" :> DirNode)
  @@ ("fenguiwav/" \o sn \o "_Vocal_A.wav" :> GoodWav)
  @@ ("fenguiwav/" \o sn \o "_Vocal_B.wav" :> GoodWav)

Edit(rel, node) == [rel |-> rel, node |-> node]

\* the single changes made to a folder for song name sn
Catalog(sn) ==
  { Edit(expected_folders[i], NoNode) : i \in DOMAIN expected_folders }
  \cup
  { Edit("fenguiwav", BlobNode),
    Edit("hunyingongcheng", BlobNode),
    Edit("notes.txt", TextNode(<<"x">>)),
    Edit(".git", DirNode),
    Edit("fenguiwav/" \o sn \o "_Vocal_A(gansheng).wav", NoNode),
    Edit("fenguiwav/" \o sn \o "_Vocal_A.wav", WavNode(44100, 1, "PCM_24")),
    Edit("fenguiwav/" \o sn \o "_BASS.wav", GoodWav),
    Edit("fenguiwav/old", DirNode),
    Edit("midi/" \o sn \o "_BG_midi.mid", BlobNode),
    Edit("csv/" \o sn \o "_Beat.csv", TextNode(<<"time,label", "0.50,1">>)),
    Edit("csv/" \o sn \o "_Structure.csv", TextNode(<<"Intro,Verse,Solo", "00:00,1:30">>)),
    Edit("hunyingongcheng/proj.flp", NoNode),
    Edit("hunyingongcheng/" \o sn \o "_GTR_1.wav", GoodWav),
    Edit("hunyingongcheng/" \o sn \o "_GTR_2.wav", GoodWav),
    Edit("hunyingongcheng/XX_GTR.wav", GoodWav) }

\* the sets of at most n changes, no two of them to the same path
RECURSIVE EditSets(_, _)
EditSets(cat, n) ==
  IF n = 0 THEN {{}}
  ELSE LET smaller == EditSets(cat, n - 1)
       IN  smaller \cup UNION {{E \cup {e} : e \in {e \in cat : \A d \in E : d.rel # e.rel}} :
                                 E \in smaller}

\* the directories above a path below the song folder
RelAncestors(rel) == {SubSeq(rel, 1, i - 1) : i \in {i \in 1..Len(rel) : Ch(rel, i) = "/"}}

\* a tree with the changes E made: changed paths replaced, and nothing kept
\* whose parent is not a directory
ApplyEdits(tree, E) ==
  LET raw == [q \in DOMAIN tree \cup {e.rel : e \in E} |->
                IF \E e \in E : e.rel = q THEN (CHOOSE e \in E : e.rel = q).node
                ELSE tree[q]]
      alive == {q \in DOMAIN raw :
                  /\ raw[q].kind # "absent"
                  /\ \A a \in RelAncestors(q) : a \in DOMAIN raw /\ raw[a].kind = "dir"}
  IN  [q \in alive |-> raw[q]]

\* the file system holding the tree as the folder song_path
Mount(song_path, tree) ==
  [q \in {song_path \o "/" \o rel : rel \in DOMAIN tree} |->
     tree[SubSeq(q, Len(song_path) + 2, Len(q))]]

BaseFs == ("/" :> DirNode) @@ (WorkspaceRoot :> DirNode)

FolderNames == {"A_Song_B", "AS"}

\* the file systems with one song folder, named name
SongFileSystems(name) ==
  LET sn == song_name_of(name)
      sp == join(WorkspaceRoot, name)
  IN  {BaseFs @@ (sp :> DirNode) @@ Mount(sp, ApplyEdits(base, E)) :
         base \in {CompliantTree(sn), ExampleTree(sn)},
         E \in EditSets(Catalog(sn), MaxEdits)}

\* the ways the caller writes the path of the folder named name, and the
\* paths of folders that do not exist
CallPaths(name) ==
  { join(WorkspaceRoot, name),
    "./" \o name,
    join(WorkspaceRoot, "X_Y_Z"),
    join(WorkspaceRoot, "nosuch") }

(***************************************************************************)
(* State.                                                                  *)
(***************************************************************************)
VARIABLES
  fs,          \* the file system
  frame,       \* per caller: the running call of check_song_folder
  returned,    \* per caller: what its finished calls returned or raised, in order
  root_dir,    \* MainWindow.root_dir
  error_data,  \* MainWindow.error_data
  worker,      \* MainWindow.worker and the position of its run()
  finished,    \* the finished signals emitted and not yet handled
  app,         \* "running", or "crashed" once the process was aborted
  scanned,     \* error_data came from a full scan and from rescans since
  last_rescan, \* the last trigger_partial_scan that rescanned a folder, and
               \* where the worker was then
  scans        \* the numbers of full scans and of rescans so far

vars == <<fs, frame, returned, root_dir, error_data, worker, finished, app,
          scanned, last_rescan, scans>>

callvars == <<frame, returned>>

scanvars == <<root_dir, error_data, worker, finished, app, scanned, last_rescan, scans>>

\* no worker was created yet
NoWorker == [state |-> "none", sub_folders |-> <<>>, idx |-> 1, full_error_map |-> <<>>]

NoRescan == [song_path |-> "", before |-> <<>>, after |-> <<>>, exc |-> "", worker |-> "none"]

\* MainWindow.__init__ with the workspace root
WindowInit(root) ==
  /\ root_dir = root
  /\ error_data = <<>>
  /\ worker = NoWorker
  /\ finished = <<>>
  /\ app = "running"
  /\ scanned = FALSE
  /\ last_rescan = NoRescan
  /\ scans = [full |-> 0, partial |-> 0]

Callers == {"c1", "c2"}

\* the song folder of the file system (single-folder file systems)
TheFolderName == CHOOSE n \in FolderNames : join(WorkspaceRoot, n) \in DOMAIN fs

Init ==
  /\ fs \in UNION {SongFileSystems(n) : n \in FolderNames}
  /\ frame = [c \in Callers |-> IdleFrame]
  /\ returned = [c \in Callers |-> <<>>]
  /\ WindowInit(WorkspaceRoot)

\* a call that starts from the error map of the caller's previous call, as
\* when error_map were kept between calls (a variant that C7 must tell from
\* the code)
Call_KeepsMap(c, song_path) ==
  /\ frame[c].pc = "idle"
  /\ Len(returned[c]) < MaxCalls
  /\ returned[c] # <<>> => song_path = returned[c][1].song_path
  /\ frame' = [frame EXCEPT ![c] =
                 [NewFrame(song_path) EXCEPT !.error_map =
                    IF returned[c] = <<>> THEN <<>>
                    ELSE returned[c][Len(returned[c])].report]]
  /\ UNCHANGED <<fs, returned>>
  /\ UNCHANGED scanvars

\* caller c calls check_song_folder(song_path); a later call of the caller is
\* on the same path
Call(c, song_path) ==
  /\ frame[c].pc = "idle"
  /\ Len(returned[c]) < MaxCalls
  /\ returned[c] # <<>> => song_path = returned[c][1].song_path
  /\ frame' = [frame EXCEPT ![c] = NewFrame(song_path)]
  /\ UNCHANGED <<fs, returned>>
  /\ UNCHANGED scanvars

\* a step that works on the error map of the other caller's running call, as
\* when error_map were one object shared by the invocations (a variant that
\* C21 must tell from the code)
CheckStep_SharedMap(c) ==
  /\ Running(frame[c])
  /\ LET others == {d \in Callers \ {c} : Running(frame[d])}
         shared == IF others = {} THEN frame[c].error_map
                   ELSE frame[CHOOSE d \in others : TRUE].error_map
     IN  frame' = [frame EXCEPT ![c] = Step(fs, [frame[c] EXCEPT !.error_map = shared])]
  /\ UNCHANGED <<fs, returned>>
  /\ UNCHANGED scanvars

\* the running call of caller c takes its next step
CheckStep(c) ==
  /\ Running(frame[c])
  /\ frame' = [frame EXCEPT ![c] = Step(fs, frame[c])]
  /\ UNCHANGED <<fs, returned>>
  /\ UNCHANGED scanvars

\* the call of caller c returns its report, or an exception escapes it
Return(c) ==
  /\ frame[c].pc \in {"return", "raised"}
  /\ returned' = [returned EXCEPT ![c] =
                    Append(@, [song_path |-> frame[c].song_path,
                               song_name |-> frame[c].song_name,
                               report    |-> IF frame[c].pc = "return"
                                               THEN frame[c].error_map ELSE <<>>,
                               exc       |-> frame[c].exc])]
  /\ frame' = [frame EXCEPT ![c] = IdleFrame]
  /\ UNCHANGED fs
  /\ UNCHANGED scanvars

Next ==
  \/ \E p \in CallPaths(TheFolderName) : Call("c1", p)
  \/ CheckStep("c1")
  \/ Return("c1")

Spec == Init /\ [][Next]_vars

(***************************************************************************)
(* Properties of check_song_folder, checked under Spec.                    *)
(***************************************************************************)
\* what a call that has just finished returned or raised.  Every entry of
\* returned is the last one in the state its call finished in, so a property
\* of these in every reachable state is a property of every finished call.
Returned ==
  {returned[c][Len(returned[c])] :
     c \in {c \in Callers : frame[c].pc = "idle" /\ returned[c] # <<>>}}

\* the messages a report holds for a path
Msgs(report, path) == IF path \in DOMAIN report THEN report[path] ELSE <<>>

\* how many times a report holds message m for a path
CountMsg(report, path, m) ==
  LET ms == Msgs(report, path) IN Cardinality({i \in DOMAIN ms : ms[i] = m})

\* how many messages of a report for a path start with a tag
CountTag(report, path, tag) ==
  LET ms == Msgs(report, path) IN Cardinality({i \in DOMAIN ms : StartsWith(ms[i], tag)})

\* the number of error strings of a report
RECURSIVE TotalMsgs(_)
TotalMsgs(report) ==
  IF DOMAIN report = {} THEN 0
  ELSE LET k == CHOOSE k \in DOMAIN report : TRUE
       IN  Len(report[k]) + TotalMsgs([q \in DOMAIN report \ {k} |-> report[q]])

\* a required file of a subdirectory is reported missing exactly when the
\* subdirectory does not list it, the name being sn_suffix.ext
TemplateUsed(r, sub, sn, suffix, ext) ==
  LET d == join(r.song_path, sub)
      n == sn \o "_" \o suffix \o ext
  IN  isdir(fs, d) =>
        (CountMsg(r.report, abspath(d), "[MissingFile] " \o n)
           = IF n \in listdir(fs, d) THEN 0 ELSE 1)

\* every filename template is instantiated with sn as the song name
TemplatesUse(r, sn) ==
  /\ \A i \in DOMAIN track_required_suffixes :
       TemplateUsed(r, "fenguiwav", sn, track_required_suffixes[i], ".wav")
  /\ TemplateUsed(r, "zongguiwav", sn, "Mix_A", ".wav")
  /\ TemplateUsed(r, "zongguiwav", sn, "Mix_B", ".wav")
  /\ TemplateUsed(r, "midi", sn, "Vocal_midi", ".mid")
  /\ TemplateUsed(r, "midi", sn, "Mix_midi", ".mid")
  /\ TemplateUsed(r, "csv", sn, "Beat", ".csv")
  /\ TemplateUsed(r, "csv", sn, "Structure", ".csv")
  /\ LET d == join(r.song_path, "hunyingongcheng")
     IN  isdir(fs, d) =>
           \A w \in {x \in listdir(fs, d) : IsWavName(x) /\ ~isdir(fs, join(d, x))} :
             CountMsg(r.report, abspath(join(d, w)),
                      "[NamingError] file must start with song name '" \o sn \o "_'")
               = IF StartsWith(w, sn \o "_") THEN 0 ELSE 1

BadlyNamed(r) == isdir(fs, r.song_path) /\ r.exc = "" /\ NameSplits(basename(r.song_path)) = {}

\* C1: for an existing song folder whose basename does not match X_Y_Z, the
\* report holds exactly one naming error on the song-folder path, and every
\* filename template of the later checks uses the raw basename as song name.
C1_NamingFallback ==
  \A r \in Returned :
    BadlyNamed(r) =>
      /\ CountTag(r.report, abspath(r.song_path), "[NamingError]") = 1
      /\ r.song_name = basename(r.song_path)
      /\ TemplatesUse(r, basename(r.song_path))

\* a badly named folder whose files carry the raw basename was checked: apart
\* from the naming error nothing is reported
C1_Witness ==
  \E r \in Returned :
    /\ BadlyNamed(r)
    /\ basename(r.song_path) = "AS"
    /\ "AS_Vocal_A.wav" \in listdir(fs, join(r.song_path, "fenguiwav"))
    /\ DOMAIN r.report = {abspath(r.song_path)}

PastTopLevel == {"stems", "mix", "midi", "csv", "beat", "structure", "daw", "return", "raised"}

\* C2: for a well-named existing song folder, each of the five expected
\* subdirectory names that its listing lacks yields exactly one
\* missing-directory error on the song-folder path, each name it lists none.
C2_MissingDirs ==
  \A c \in Callers :
    (/\ frame[c].pc \in PastTopLevel
     /\ isdir(fs, frame[c].song_path)
     /\ NameSplits(basename(frame[c].song_path)) # {}) =>
      \A i \in DOMAIN expected_folders :
        CountMsg(frame[c].error_map, abspath(frame[c].song_path),
                 "[MissingDir] missing " \o expected_folders[i])
          = IF expected_folders[i] \in listdir(fs, frame[c].song_path) THEN 0 ELSE 1

\* a well-named folder that lacks some of the five and lists others (one of
\* them as a regular file) was checked
C2_Witness ==
  \E c \in Callers :
    /\ frame[c].pc \in PastTopLevel
    /\ isdir(fs, frame[c].song_path)
    /\ NameSplits(basename(frame[c].song_path)) # {}
    /\ "midi" \notin listdir(fs, frame[c].song_path)
    /\ "fenguiwav" \in listdir(fs, frame[c].song_path)
    /\ ~isdir(fs, join(frame[c].song_path, "fenguiwav"))

\* C3 as stated: check_song_folder on a path that does not exist returns an
\* empty report and raises nothing, whatever the basename of the path.
C3_MissingPathEmpty ==
  \A r \in Returned : ~exists(fs, r.song_path) => (r.exc = "" /\ r.report = <<>>)

\* C4 as stated: for every existing song folder, whatever its entries are,
\* check_song_folder returns a report and no exception escapes the call.
C4_NoException ==
  \A r \in Returned : isdir(fs, r.song_path) => r.exc = ""

ExamplePath == "/w/A_Song_B"

\* the folder A_Song_B holding only the two vocal stems
ExampleFs == BaseFs @@ (ExamplePath :> DirNode) @@ Mount(ExamplePath, ExampleTree("Song"))

ExampleChecked(r) == fs = ExampleFs /\ abspath(r.song_path) = ExamplePath

\* C5 as stated: the report of the example folder has one entry for the song
\* folder with 4 missing-directory errors plus 2 entries under the stems
\* folder, 6 error strings across 3 path keys.
C5_ThreeKeys ==
  \A r \in Returned :
    ExampleChecked(r) =>
      /\ CountTag(r.report, ExamplePath, "[MissingDir]") = 4
      /\ TotalMsgs(r.report) = 6
      /\ Cardinality(DOMAIN r.report) = 3

\* C5 amended: the report of the example folder has one entry for the song
\* folder with the 4 missing-directory errors and one entry for the stems
\* folder with the 2 missing-file errors: 6 error strings across 2 path keys.
C5_TwoKeys ==
  \A r \in Returned :
    ExampleChecked(r) =>
      /\ r.exc = ""
      /\ r.report =
           (ExamplePath :> << "[MissingDir] missing zongguiwav",
                              "[MissingDir] missing midi",
                              "[MissingDir] missing csv",
                              "[MissingDir] missing hunyingongcheng" >>)
           @@ (ExamplePath \o "/fenguiwav" :>
                 << "[MissingFile] Song_Vocal_A(gansheng).wav",
                    "[MissingFile] Song_Vocal_B(gansheng).wav" >>)
      /\ TotalMsgs(r.report) = 6
      /\ Cardinality(DOMAIN r.report) = 2

\* the example folder was checked
C5_Witness == \E r \in Returned : ExampleChecked(r)

\* the rules of the convention, stated for a folder as a whole
GoodHeader(f, p) ==
  LET n == stat(f, p)
  IN  n.kind = "file" /\ n.audio /\ n.samplerate = 96000 /\ n.channels = 2
      /\ n.subtype = "PCM_24"

\* a directory holds every required name, nothing besides required and allowed
\* names, and only regular files
HoldsExactly(f, d, required, allowed) ==
  /\ isdir(f, d)
  /\ required \subseteq listdir(f, d)
  /\ listdir(f, d) \subseteq required \cup allowed
  /\ \A n \in listdir(f, d) : stat(f, join(d, n)).kind = "file"

NonBlankRows(lines) == {k \in 2..Len(lines) : Strip(lines[k]) # ""}

ValidBeat(f, p) ==
  LET n == stat(f, p)
  IN  /\ n.kind = "file" /\ n.text /\ n.lines # <<>>
      /\ n.lines[1] = "TIME,LABEL"
      /\ \A k \in NonBlankRows(n.lines) : Len(Split(Strip(n.lines[k]), ",")) = 2
      /\ Len(n.lines) >= 2 =>
           (~Contains(Lower(n.lines[2]), "time") /\ ~Contains(Lower(n.lines[2]), "label"))

ValidStructure(f, p) ==
  LET n == stat(f, p)
  IN  /\ n.kind = "file" /\ n.text /\ n.lines # <<>>
      /\ LET labels == Split(n.lines[1], ",")
         IN  /\ \A i \in DOMAIN labels : labels[i] \in allowed_labels
             /\ \A k \in NonBlankRows(n.lines) :
                  LET cells == Split(Strip(n.lines[k]), ",")
                  IN  /\ Len(cells) = Len(labels)
                      /\ \A i \in DOMAIN cells : TimeOk(cells[i])

ValidInstrCsv(f, p) ==
  LET n == stat(f, p)
  IN  /\ n.kind = "file" /\ n.text /\ n.lines # <<>>
      /\ n.lines[1] = "yueqi,yinyuan"
      /\ \A k \in NonBlankRows(n.lines) : Len(Split(Strip(n.lines[k]), ",")) = 2

\* the DAW WAVs obey the prefix rule and the take-index rule
ValidDawWavs(f, d, sn, wavs) ==
  \A w \in wavs :
    /\ GoodHeader(f, join(d, w))
    /\ StartsWith(w, sn \o "_")
    /\ inst_name(sn, w) # ""
    /\ LET group == {v \in wavs : inst_name(sn, v) = inst_name(sn, w)}
       IN  IF Cardinality(group) = 1 THEN ~has_num(sn, w) ELSE has_num(sn, w)

NamesOf(sn, suffixes, ext) == {sn \o "_" \o suffixes[i] \o ext : i \in DOMAIN suffixes}

\* the song folder sp satisfies every rule
Compliant(f, sp) ==
  LET segs == Split(basename(sp), "_")
      sn   == segs[2]
      stems == join(sp, "fenguiwav")
      mix   == join(sp, "zongguiwav")
      midi  == join(sp, "midi")
      csv   == join(sp, "csv")
      daw   == join(sp, "hunyingongcheng")
      wavs  == {x \in listdir(f, daw) : IsWavName(x)}
  IN  /\ isdir(f, sp)
      /\ Len(segs) = 3 /\ \A i \in 1..3 : segs[i] # ""
      /\ \A x \in listdir(f, sp) :
           x \in {expected_folders[i] : i \in DOMAIN expected_folders} \/ StartsWith(x, ".")
      /\ HoldsExactly(f, stems, NamesOf(sn, track_required_suffixes, ".wav"),
                      NamesOf(sn, track_allowed_suffixes, ".wav"))
      /\ \A n \in listdir(f, stems) : GoodHeader(f, join(stems, n))
      /\ HoldsExactly(f, mix, NamesOf(sn, <<"Mix_A", "Mix_B">>, ".wav"), {})
      /\ \A n \in listdir(f, mix) : GoodHeader(f, join(mix, n))
      /\ HoldsExactly(f, midi, NamesOf(sn, <<"Vocal_midi", "Mix_midi">>, ".mid"),
                      NamesOf(sn, <<"BG_midi">>, ".mid"))
      /\ HoldsExactly(f, csv, NamesOf(sn, <<"Beat", "Structure">>, ".csv"), {})
      /\ ValidBeat(f, join(csv, sn \o "_Beat.csv"))
      /\ ValidStructure(f, join(csv, sn \o "_Structure.csv"))
      /\ isdir(f, daw)
      /\ \E x \in listdir(f, daw) : IsDawName(x)
      /\ \A x \in listdir(f, daw) : IsWavName(x) \/ IsDawName(x) \/ x = InstrCsvName
      /\ ValidInstrCsv(f, join(daw, InstrCsvName))
      /\ ValidDawWavs(f, daw, sn, wavs)

\* C6: a song folder that satisfies every rule (name, the five
\* subdirectories, exactly the required plus optionally the allowed files,
\* correct WAV headers, valid CSVs, a DAW project file, DAW WAVs obeying the
\* prefix and take-index rules) yields an empty report.
C6_CompliantEmpty ==
  \A r \in Returned :
    Compliant(fs, r.song_path) => (r.exc = "" /\ r.report = <<>>)

\* a compliant folder with two takes of one instrument in the DAW folder was
\* checked
C6_Witness ==
  \E r \in Returned :
    /\ Compliant(fs, r.song_path)
    /\ {"Song_GTR_1.wav", "Song_GTR_2.wav"}
         \subseteq listdir(fs, join(r.song_path, "hunyingongcheng"))

\* the messages of a list as a bag
BagOf(ms) == [m \in {ms[i] : i \in DOMAIN ms} |-> Cardinality({i \in DOMAIN ms : ms[i] = m})]

SameReport(a, b) ==
  /\ a.exc = b.exc
  /\ DOMAIN a.report = DOMAIN b.report
  /\ \A k \in DOMAIN a.report : BagOf(a.report[k]) = BagOf(b.report[k])

\* C7: two calls of check_song_folder on the same folder, the file system
\* unchanged between them, give reports with the same keys and, for every
\* key, the same multiset of messages.
C7_Idempotent ==
  \A c \in Callers :
    \A i, j \in DOMAIN returned[c] :
      returned[c][i].song_path = returned[c][j].song_path
        => SameReport(returned[c][i], returned[c][j])

\* a folder with errors under several keys was checked twice
C7_Witness ==
  \E c \in Callers :
    /\ Len(returned[c]) >= 2
    /\ returned[c][1].exc = ""
    /\ Cardinality(DOMAIN returned[c][2].report) >= 3

\* a path as normpath leaves an absolute path: rooted, no empty, "." or ".."
\* component, no trailing separator
NormalizedAbsolute(k) ==
  /\ StartsWith(k, "/")
  /\ ~Contains(k, "//")
  /\ ~Contains(k \o "/", "/./")
  /\ ~Contains(k \o "/", "/../")
  /\ k = "/" \/ ~EndsWith(k, "/")

\* C10: every key of every report of check_song_folder, at every point of
\* the call, is a normalized absolute path, also when the song path is given
\* relative or un-normalized.
C10_KeysNormalized ==
  \A c \in Callers :
    \A k \in DOMAIN frame[c].error_map : NormalizedAbsolute(k)

\* a report with entries was built for a folder given by a relative,
\* un-normalized path
C10_Witness ==
  \E c \in Callers :
    /\ frame[c].pc = "return"
    /\ frame[c].song_path = "./A_Song_B"
    /\ Cardinality(DOMAIN frame[c].error_map) >= 3

\* the names of the five expected subdirectories
ExpectedNames == {"fenguiwav", "zongguiwav", "midi", "csv", "hunyingongcheng"}

\* the children of a song folder that count as extra items
ExtraChildren(song_path) ==
  {x \in listdir(fs, song_path) : x \notin ExpectedNames /\ ~StartsWith(x, ".")}

\* how many messages with a tag a report holds on the keys in K
RECURSIVE CountTagIn(_, _, _)
CountTagIn(report, K, tag) ==
  IF K = {} THEN 0
  ELSE LET k == CHOOSE k \in K : TRUE
       IN  CountTag(report, k, tag) + CountTagIn(report, K \ {k}, tag)

\* C19: once the top level of an existing song folder was listed, every
\* child whose name is not one of the five expected names and does not start
\* with "." has exactly one extra-item error keyed on the child's own path,
\* and every other child (an expected name, or a name starting with ".") has
\* none; no other key holds an extra-item error.
C19_ExtraItems ==
  \A c \in Callers :
    (frame[c].pc \in PastTopLevel /\ isdir(fs, frame[c].song_path)) =>
      /\ \A x \in listdir(fs, frame[c].song_path) :
           LET child == abspath(join(frame[c].song_path, x))
           IN  /\ CountTag(frame[c].error_map, child, "[ExtraItem]")
                    = IF x \in ExtraChildren(frame[c].song_path) THEN 1 ELSE 0
               /\ CountMsg(frame[c].error_map, child, "[ExtraItem] " \o x)
                    = IF x \in ExtraChildren(frame[c].song_path) THEN 1 ELSE 0
      /\ CountTagIn(frame[c].error_map, DOMAIN frame[c].error_map, "[ExtraItem]")
           = Cardinality(ExtraChildren(frame[c].song_path))

\* the top level of a folder holding notes.txt and .git next to expected
\* subdirectories was listed: one extra-item error, on notes.txt
C19_Witness ==
  \E c \in Callers :
    /\ frame[c].pc \in PastTopLevel
    /\ {"notes.txt", ".git", "fenguiwav"} \subseteq listdir(fs, frame[c].song_path)
    /\ Msgs(frame[c].error_map, abspath(join(frame[c].song_path, "notes.txt")))
         = <<"[ExtraItem] notes.txt">>
    /\ abspath(join(frame[c].song_path, ".git")) \notin DOMAIN frame[c].error_map

(***************************************************************************)
(* The window: full scans by InitialScanWorker and incremental rescans.    *)
(***************************************************************************)
MaxFullScans == 2

MaxRescans == 2

\* dict.update
update(d, e) == [k \in DOMAIN d \cup DOMAIN e |-> IF k \in DOMAIN e THEN e[k] ELSE d[k]]

\* a dict without the keys in ks
without(d, ks) == [k \in DOMAIN d \ ks |-> d[k]]

ScanFolderNames == {"A_Song_B", "A_Song_B2", "AS"}

\* what a folder of the workspace holds
ScanTree(name, which) ==
  LET sn == song_name_of(name)
  IN  CASE which = "compliant" -> CompliantTree(sn)
        [] which = "example"   -> ExampleTree(sn)
        [] which = "stemsfile" -> ApplyEdits(ExampleTree(sn), {Edit("fenguiwav", BlobNode)})

\* the trees a folder of the workspace can hold ("none": no such folder)
ScanVariants(name) ==
  CASE name = "A_Song_B"  -> {"none", "example", "compliant"}
    [] name = "A_Song_B2" -> {"none", "example"}
    [] name = "AS"        -> {"none", "stemsfile"}

\* the workspaces: each folder absent or holding one of the trees, and a
\* regular file directly under the root
Workspaces ==
  { LET part(n) == IF ch[n] = "none" THEN <<>>
                   ELSE (join(WorkspaceRoot, n) :> DirNode)
                          @@ Mount(join(WorkspaceRoot, n), ScanTree(n, ch[n]))
        base == BaseFs @@ (join(WorkspaceRoot, "readme.txt") :> TextNode(<<"x">>))
        dom  == DOMAIN base \cup UNION {DOMAIN part(n) : n \in ScanFolderNames}
    IN  [q \in dom |-> IF q \in DOMAIN base THEN base[q]
                       ELSE part(CHOOSE n \in ScanFolderNames : q \in DOMAIN part(n))[q]]
    : ch \in {c \in [ScanFolderNames -> {"none", "compliant", "example", "stemsfile"}] :
                \A n \in ScanFolderNames : c[n] \in ScanVariants(n)} }

\* the paths the watcher, the editor and the file operations report as changed
ChangedPaths ==
  {WorkspaceRoot, join(WorkspaceRoot, "readme.txt")}
  \cup {join(WorkspaceRoot, n) : n \in ScanFolderNames}
  \cup {join(WorkspaceRoot, "A_Song_B/csv/x.csv")}

\* the orders os.listdir can give the immediate subdirectories in
Orderings(S) == {q \in [1..Cardinality(S) -> S] : \A i, j \in DOMAIN q : q[i] = q[j] => i = j}

InitScan ==
  /\ fs \in Workspaces
  /\ frame = [c \in Callers |-> IdleFrame]
  /\ returned = [c \in Callers |-> <<>>]
  /\ WindowInit(WorkspaceRoot)

\* MainWindow.run_full_scan.  Rebinding self.worker while the previous
\* worker's thread still runs destroys a running QThread, which aborts the
\* process.
RunFullScan ==
  /\ app = "running"
  /\ scans.full < MaxFullScans
  /\ scans' = [scans EXCEPT !.full = @ + 1]
  /\ IF ~isdir(fs, root_dir)
       THEN UNCHANGED <<error_data, worker, app, scanned>>
       ELSE /\ error_data' = <<>>
            /\ scanned' = FALSE
            /\ IF worker.state \in {"started", "checking"}
                 THEN app' = "crashed" /\ UNCHANGED worker
                 ELSE /\ worker' = [NoWorker EXCEPT !.state = "started"]
                      /\ UNCHANGED app
  /\ UNCHANGED <<fs, root_dir, finished, last_rescan>>
  /\ UNCHANGED callvars

\* the listing of InitialScanWorker.run without the os.path.isdir filter of
\* line 28 (a variant that C12 must tell from the code)
WorkerList_AllEntries ==
  /\ app = "running"
  /\ worker.state = "started"
  /\ IF ~isdir(fs, root_dir)
       THEN /\ finished' = Append(finished, <<>>)
            /\ worker' = [worker EXCEPT !.state = "done"]
       ELSE /\ \E order \in Orderings(listdir(fs, root_dir)) :
                 worker' = [worker EXCEPT
                              !.state = "checking",
                              !.sub_folders = [i \in DOMAIN order |-> join(root_dir, order[i])]]
            /\ UNCHANGED finished
  /\ UNCHANGED <<fs, root_dir, error_data, app, scanned, last_rescan, scans>>
  /\ UNCHANGED callvars

\* InitialScanWorker.run up to the listing of the immediate subdirectories
WorkerList ==
  /\ app = "running"
  /\ worker.state = "started"
  /\ IF ~isdir(fs, root_dir)
       THEN /\ finished' = Append(finished, <<>>)
            /\ worker' = [worker EXCEPT !.state = "done"]
       ELSE /\ \E order \in Orderings({d \in listdir(fs, root_dir) :
                                         isdir(fs, join(root_dir, d))}) :
                 worker' = [worker EXCEPT
                              !.state = "checking",
                              !.sub_folders = [i \in DOMAIN order |-> join(root_dir, order[i])]]
            /\ UNCHANGED finished
  /\ UNCHANGED <<fs, root_dir, error_data, app, scanned, last_rescan, scans>>
  /\ UNCHANGED callvars

\* one iteration of the loop of InitialScanWorker.run; an exception that
\* escapes run() is unhandled and aborts the process
WorkerCheck ==
  /\ app = "running"
  /\ worker.state = "checking"
  /\ worker.idx <= Len(worker.sub_folders)
  /\ \E r \in {check_song_folder(fs, worker.sub_folders[worker.idx])} :
       IF r.exc # ""
         THEN app' = "crashed" /\ UNCHANGED worker
         ELSE /\ worker' = [worker EXCEPT !.idx = @ + 1,
                                          !.full_error_map = update(@, r.error_map)]
              /\ UNCHANGED app
  /\ UNCHANGED <<fs, root_dir, error_data, finished, scanned, last_rescan, scans>>
  /\ UNCHANGED callvars

\* InitialScanWorker.run emits finished after the loop
WorkerFinish ==
  /\ app = "running"
  /\ worker.state = "checking"
  /\ worker.idx > Len(worker.sub_folders)
  /\ finished' = Append(finished, worker.full_error_map)
  /\ worker' = [worker EXCEPT !.state = "done"]
  /\ UNCHANGED <<fs, root_dir, error_data, app, scanned, last_rescan, scans>>
  /\ UNCHANGED callvars

\* MainWindow.on_scan_finished handles the oldest finished signal; the
\* os.listdir(self.root_dir) of line 744 raises when the root is no longer a
\* directory, and an exception that escapes the slot aborts the process
OnScanFinished ==
  /\ app = "running"
  /\ finished # <<>>
  /\ error_data' = Head(finished)
  /\ finished' = Tail(finished)
  /\ scanned' = TRUE
  /\ app' = IF listdir_exc(fs, root_dir) # "" THEN "crashed" ELSE "running"
  /\ UNCHANGED <<fs, root_dir, worker, last_rescan, scans>>
  /\ UNCHANGED callvars

\* a key that str.startswith takes for one of song_path's
StartsWithSongPath(k, song_path) == StartsWith(k, song_path)

\* MainWindow.trigger_partial_scan(changed_path); an exception that escapes
\* the slot aborts the process, after the old entries were removed
TriggerPartialScan(changed_path) ==
  /\ app = "running"
  /\ scans.partial < MaxRescans
  /\ scans' = [scans EXCEPT !.partial = @ + 1]
  /\ \E parts \in {Split(relpath(changed_path, root_dir), "/")} :
     \E song_path \in {join(root_dir, parts[1])} :
         IF isdir(fs, root_dir) /\ parts[1] # "." /\ isdir(fs, song_path)
           THEN \E r \in {check_song_folder(fs, song_path)} :
                  LET keys_to_remove == {k \in DOMAIN error_data :
                                           StartsWithSongPath(k, song_path)}
                      removed == without(error_data, keys_to_remove)
                  IN  /\ error_data' = IF r.exc # "" THEN removed
                                       ELSE update(removed, r.error_map)
                      /\ app' = IF r.exc # "" THEN "crashed" ELSE "running"
                      /\ last_rescan' = [song_path |-> song_path, before |-> error_data,
                                         after |-> error_data', exc |-> r.exc,
                                         worker |-> worker.state]
           ELSE UNCHANGED <<error_data, app, last_rescan>>
  /\ UNCHANGED <<fs, root_dir, worker, finished, scanned>>
  /\ UNCHANGED callvars

NextScan ==
  \/ RunFullScan
  \/ WorkerList
  \/ WorkerCheck
  \/ WorkerFinish
  \/ OnScanFinished
  \/ \E p \in ChangedPaths : TriggerPartialScan(p)

SpecScan == InitScan /\ [][NextScan]_vars

(***************************************************************************)
(* Properties of the scans, checked under SpecScan.                        *)
(***************************************************************************)
\* a key that is the folder's path or a path inside the folder
InFolder(k, folder) == k = folder \/ StartsWith(k, folder \o "/")

\* the report a full scan of the workspace gives: the reports of the
\* immediate subdirectories of the root, merged
RECURSIVE Merged(_, _)
Merged(f, folders) ==
  IF folders = <<>> THEN <<>>
  ELSE update(check_song_folder(f, Head(folders)).error_map, Merged(f, Tail(folders)))

FullScanReport(f, root) ==
  IF ~isdir(f, root) THEN <<>>
  ELSE Merged(f, SeqOfSet({join(root, d) : d \in {d \in listdir(f, root) :
                                                   isdir(f, join(root, d))}}))

\* C8: an incremental rescan of song folder F removes and replaces only the
\* entries whose key is F or a path inside F: the entries of F after it are
\* the fresh report of F, and every entry keyed on or inside another folder
\* of the workspace is as it was, also when one folder's name is a prefix of
\* the other's.
C8_RescanFrame ==
  (last_rescan.song_path # "" /\ last_rescan.exc = "") =>
    LET F == last_rescan.song_path
        fresh == check_song_folder(fs, F).error_map
    IN  /\ \A k \in DOMAIN last_rescan.before \cup DOMAIN last_rescan.after :
             ~InFolder(k, F) =>
               /\ k \in DOMAIN last_rescan.before
               /\ k \in DOMAIN last_rescan.after
               /\ last_rescan.after[k] = last_rescan.before[k]
        /\ \A k \in DOMAIN last_rescan.after \cup DOMAIN fresh :
             InFolder(k, F) =>
               /\ k \in DOMAIN last_rescan.after
               /\ k \in DOMAIN fresh
               /\ last_rescan.after[k] = fresh[k]

\* C9: once the error map came from a full scan, after any sequence of
\* incremental rescans on the unchanged file system it equals the report a
\* fresh full scan of the workspace gives.
C9_RescansKeepFullScan ==
  (scanned /\ app = "running") => error_data = FullScanReport(fs, root_dir)


\* the sub-folders whose reports the worker has merged so far
CheckedFolders == {worker.sub_folders[j] : j \in 1..(worker.idx - 1)}

\* C11: in a full scan, every key of the report of an immediate subdirectory
\* is the folder's own path or a path inside it, so the reports of two
\* distinct subdirectories share no key, and the merged report is their
\* union: it holds each entry of each report merged so far, unchanged, and
\* nothing else.
C11_MergeIsUnion ==
  (app = "running" /\ worker.state \in {"checking", "done"}) =>
    /\ \A F \in CheckedFolders :
         \A k \in DOMAIN check_song_folder(fs, F).error_map :
           /\ InFolder(k, F)
           /\ k \in DOMAIN worker.full_error_map
           /\ worker.full_error_map[k] = check_song_folder(fs, F).error_map[k]
    /\ \A F, G \in CheckedFolders :
         F # G => DOMAIN check_song_folder(fs, F).error_map
                    \cap DOMAIN check_song_folder(fs, G).error_map = {}
    /\ DOMAIN worker.full_error_map
         = UNION {DOMAIN check_song_folder(fs, F).error_map : F \in CheckedFolders}

\* the worker finished a scan of a workspace with two folders, one's name a
\* prefix of the other's, both with errors, and emitted the merged report
C11_Witness ==
  /\ worker.state = "done"
  /\ finished # <<>>
  /\ {"/w/A_Song_B", "/w/A_Song_B2"} \subseteq CheckedFolders
  /\ "/w/A_Song_B/fenguiwav" \in DOMAIN worker.full_error_map
  /\ "/w/A_Song_B2/fenguiwav" \in DOMAIN worker.full_error_map


(***************************************************************************)
(* The window while the workspace directory goes away on disk.             *)
(***************************************************************************)
\* what is left in place of the workspace directory: nothing, or a regular
\* file of its name
RootRemains == {<<>>, (WorkspaceRoot :> BlobNode)}

\* the workspace directory is deleted on disk, or replaced by a regular file
RemoveWorkspace ==
  /\ app = "running"
  /\ isdir(fs, root_dir)
  /\ \E rest \in RootRemains : fs' = ("/" :> DirNode) @@ rest
  /\ UNCHANGED scanvars
  /\ UNCHANGED callvars

NextDisk ==
  \/ RunFullScan
  \/ WorkerList
  \/ WorkerCheck
  \/ WorkerFinish
  \/ OnScanFinished
  \/ \E p \in ChangedPaths : TriggerPartialScan(p)
  \/ RemoveWorkspace

SpecDisk == InitScan /\ [][NextDisk]_vars

\* the immediate subdirectories of a root
SubFoldersOf(f, root) == {join(root, d) : d \in {d \in listdir(f, root) : isdir(f, join(root, d))}}

\* C12: when the worker of a full scan finds that its root is not a
\* directory it emits an empty report at once; otherwise it lists exactly the
\* immediate subdirectories of the root, so no regular file directly under
\* the root is ever validated, and with no subdirectory listed it emits an
\* empty report; in neither case an exception ends the scan.
C12_EmptyScan ==
  [][/\ (app = "running" /\ worker.state = "started" /\ worker' # worker) =>
          /\ app' = "running"
          /\ IF ~isdir(fs, root_dir)
               THEN worker'.state = "done" /\ finished' = Append(finished, <<>>)
               ELSE /\ worker'.state = "checking"
                    /\ finished' = finished
                    /\ {worker'.sub_folders[i] : i \in DOMAIN worker'.sub_folders}
                         = SubFoldersOf(fs, root_dir)
     /\ (app = "running" /\ worker.state = "checking" /\ worker.sub_folders = <<>>
           /\ worker' # worker) =>
          /\ app' = "running"
          /\ worker'.state = "done"
          /\ finished' = Append(finished, <<>>)
    ]_vars

\* a worker started on a workspace that was then removed has emitted its
\* empty report
C12_Witness ==
  /\ ~isdir(fs, root_dir)
  /\ worker.state = "done"
  /\ worker.sub_folders = <<>>
  /\ finished = << <<>> >>
  /\ app = "running"


(***************************************************************************)
(* check_song_folder on folders that differ from a compliant one in one    *)
(* file or one subdirectory: the header of a WAV, the lines of a CSV file, *)
(* the WAVs or the project entries of the DAW project folder.              *)
(***************************************************************************)
MaxRows == 2

MaxEntries == 2

FilesFolder == "A_Song_B"

FilesSong == song_name_of(FilesFolder)

FilesPath == join(WorkspaceRoot, FilesFolder)

\* the sequences of at most n members of S
SeqsUpTo(S, n) == UNION {[1..k -> S] : k \in 0..n}

\* the subsets of S with at most n members
SubsetsUpTo(S, n) == {T \in SUBSET S : Cardinality(T) <= n}

\* the file system holding a compliant folder with the changes E made
FilesFs(E) ==
  BaseFs @@ (FilesPath :> DirNode) @@ Mount(FilesPath, ApplyEdits(CompliantTree(FilesSong), E))

\* what opening a stem as a sound file finds: a header, or no sound file
WavHeaders ==
  {WavNode(sr, ch, st) : sr \in {96000, 44100}, ch \in {2, 1}, st \in {"PCM_24", "PCM_16"}}
  \cup {BlobNode}

StemRel == "fenguiwav/" \o FilesSong \o "_Vocal_A.wav"

StemPath == join(FilesPath, StemRel)

WavCases == {FilesFs({Edit(StemRel, n)}) : n \in WavHeaders}

BeatRel == "csv/" \o FilesSong \o "_Beat.csv"

BeatPath == join(FilesPath, BeatRel)

BeatHeaders == {"TIME,LABEL", "time,label", "Time,Label", " TIME,LABEL", "TIME,LABEL ",
                "TIME, LABEL", "TIME,LABEL,X"}

BeatRows == {"0.50,1", "1,2,3", "", "x", " 2.00,4 "}

BeatCases ==
  {FilesFs({Edit(BeatRel, TextNode(<<h>> \o rows))}) :
     h \in BeatHeaders, rows \in SeqsUpTo(BeatRows, MaxRows)}
  \cup {FilesFs({Edit(BeatRel, TextNode(<<>>))})}

StructureRel == "csv/" \o FilesSong \o "_Structure.csv"

StructurePath == join(FilesPath, StructureRel)

StructureHeaders == {"Intro,Verse", "Intro,Verse,Solo", "Solo,Solo", "intro,Outro",
                     "Intro,,Verse", "", " Chorus , Bridge "}

StructureRows == {"00:00,00:30", "00:00,1:30", "00:00,,00:30", "", "00:00,00:30,01:00x"}

StructureCases ==
  {FilesFs({Edit(StructureRel, TextNode(<<h>> \o rows))}) :
     h \in StructureHeaders, rows \in SeqsUpTo(StructureRows, MaxRows)}
  \cup {FilesFs({Edit(StructureRel, TextNode(<<>>))})}

DawRel == "hunyingongcheng"

DawPath == join(FilesPath, DawRel)

DawWavNames == {FilesSong \o "_GTR.wav", FilesSong \o "_GTR_1.wav", FilesSong \o "_GTR_2.WAV",
                FilesSong \o "_BASS_1.wav", FilesSong \o "__1.wav", "XX_GTR.wav"}

DawWavCases ==
  {FilesFs({Edit(DawRel \o "/" \o n, GoodWav) : n \in S}) : S \in SUBSET DawWavNames}

\* entries of the DAW project folder that are or look like project files
ProjectEntries ==
  {Edit("proj.flp", BlobNode), Edit("P.FLP", BlobNode), Edit("x.logicx", DirNode),
   Edit("y.Cpr", BlobNode), Edit("proj.flp.bak", BlobNode), Edit("flp", BlobNode),
   Edit(".cpr", BlobNode)}

ProjectCases ==
  {FilesFs({Edit(DawRel \o "/proj.flp", NoNode)}
           \cup {Edit(DawRel \o "/" \o e.rel, e.node) : e \in S}) :
     S \in SubsetsUpTo(ProjectEntries, MaxEntries)}

InitFiles ==
  /\ fs \in WavCases \cup BeatCases \cup StructureCases \cup DawWavCases \cup ProjectCases
  /\ frame = [c \in Callers |-> IdleFrame]
  /\ returned = [c \in Callers |-> <<>>]
  /\ WindowInit(WorkspaceRoot)

SpecFiles == InitFiles /\ [][Next]_vars

\* the reports returned for the folder of these file systems
FilesReports == {r.report : r \in {r \in Returned : abspath(r.song_path) = FilesPath /\ r.exc = ""}}

\* C13: check_wav_format gives at most one message for a file: none when the
\* sample rate is 96000, the channel count 2 and the subtype PCM_24;
\* otherwise one format-error message that names exactly the violated
\* fields; and one cannot-read message, not a format error, when the file
\* does not open as a sound file.  The report of the folder holds that one
\* message, and no other, for the file.
C13_OneWavMessage ==
  LET n   == stat(fs, StemPath)
      msg == check_wav_format(fs, StemPath)
      bad_rate     == n.samplerate # 96000
      bad_channels == n.channels # 2
      bad_subtype  == n.subtype # "PCM_24"
  IN  n.kind = "file" =>
        /\ msg = "" <=> (n.audio /\ ~bad_rate /\ ~bad_channels /\ ~bad_subtype)
        /\ ~n.audio => (StartsWith(msg, "[CannotReadWAV]") /\ ~Contains(msg, "[AudioFormatError]"))
        /\ (n.audio /\ msg # "") =>
             /\ StartsWith(msg, "[AudioFormatError]")
             /\ Contains(msg, "samplerate " \o Str(n.samplerate)) <=> bad_rate
             /\ Contains(msg, "channels " \o Str(n.channels)) <=> bad_channels
             /\ Contains(msg, "subtype " \o n.subtype) <=> bad_subtype
        /\ \A report \in FilesReports :
             Msgs(report, StemPath) = IF msg = "" THEN <<>> ELSE <<msg>>

\* a folder whose stem has the wrong sample rate and the wrong channel count
\* was checked: its report holds one message for the stem, naming both
C13_Witness ==
  \E report \in FilesReports :
    /\ stat(fs, StemPath).samplerate = 44100
    /\ stat(fs, StemPath).channels = 1
    /\ Len(Msgs(report, StemPath)) = 1
    /\ Contains(report[StemPath][1], "samplerate 44100")
    /\ Contains(report[StemPath][1], "channels 1")

\* the lines of the Beat CSV of the folder
BeatLines == stat(fs, BeatPath).lines

\* C14 as stated: for a non-empty Beat CSV a header error is reported exactly
\* when its first line is not the literal TIME,LABEL, so that a first line
\* with other letter case or with any extra whitespace, leading and trailing
\* included, is rejected.
C14_HeaderExact ==
  \A report \in FilesReports :
    BeatLines # <<>> =>
      (CountTag(report, BeatPath, "[HeaderError]") = IF BeatLines[1] = "TIME,LABEL" THEN 0 ELSE 1)

\* the number of comma-separated fields of a line
FieldCount(line) == Cardinality({i \in 1..Len(line) : Ch(line, i) = ","}) + 1

\* the message of a column-count error for line idx of a two-column file
TwoColumnsMsg(idx) == "[ColumnCountError] line " \o Str(idx) \o " is not 2 columns"

\* C15: in a Beat CSV with the header TIME,LABEL, every non-blank line after
\* the first that does not have exactly 2 comma-separated fields yields
\* exactly one column-count error that names its line number; lines with 2
\* fields and blank lines yield none, so the column-count errors are as many
\* as the offending lines.
C15_BeatColumns ==
  \A report \in FilesReports :
    (BeatLines # <<>> /\ BeatLines[1] = "TIME,LABEL") =>
      /\ \A idx \in 2..Len(BeatLines) :
           CountMsg(report, BeatPath, TwoColumnsMsg(idx))
             = IF Strip(BeatLines[idx]) # "" /\ FieldCount(BeatLines[idx]) # 2 THEN 1 ELSE 0
      /\ CountTag(report, BeatPath, "[ColumnCountError]")
           = Cardinality({idx \in 2..Len(BeatLines) :
                            Strip(BeatLines[idx]) # "" /\ FieldCount(BeatLines[idx]) # 2})

\* a Beat CSV with a single 3-field row, after a blank line and before
\* nothing else, was checked: one column-count error, for line 3 only
C15_Witness ==
  \E report \in FilesReports :
    /\ BeatLines = <<"TIME,LABEL", "", "1,2,3">>
    /\ Msgs(report, BeatPath) = <<TwoColumnsMsg(3)>>

\* the lines of the Structure CSV of the folder
StructureLines == stat(fs, StructurePath).lines

\* the comma-separated cells of a line, stripped, the empty ones included
CellsOf(line) == [i \in DOMAIN Split(line, ",") |-> Strip(Split(line, ",")[i])]

\* the labels of a header line: its cells that are not empty
LabelsOf(line) == NonEmpty(CellsOf(line))

Vocabulary == {"Intro", "Verse", "Chorus", "Bridge", "Outro"}

\* the message of the header error that names label h
BadLabelMsg(h) == "[HeaderError] " \o h \o " not an allowed section type"

\* how many members of a sequence satisfy being equal to x
Occurrences(s, x) == Cardinality({i \in DOMAIN s : s[i] = x})

\* C16: for a Structure CSV, each label of the header that is outside the
\* vocabulary Intro, Verse, Chorus, Bridge, Outro yields exactly one header
\* error naming it (one per occurrence), and a label inside it yields none;
\* the header Intro,Verse,Solo yields exactly one, naming Solo.
C16_HeaderLabels ==
  \A report \in FilesReports :
    StructureLines # <<>> =>
      LET labels == LabelsOf(StructureLines[1])
      IN  /\ \A i \in DOMAIN labels :
               CountMsg(report, StructurePath, BadLabelMsg(labels[i]))
                 = IF labels[i] \in Vocabulary THEN 0 ELSE Occurrences(labels, labels[i])
          /\ Cardinality({k \in DOMAIN Msgs(report, StructurePath) :
                            EndsWith(report[StructurePath][k], " not an allowed section type")})
               = Cardinality({i \in DOMAIN labels : labels[i] \notin Vocabulary})

\* the Structure CSV with the header Intro,Verse,Solo and no row was
\* checked: one error for the file, the header error naming Solo
C16_Witness ==
  \E report \in FilesReports :
    /\ StructureLines = <<"Intro,Verse,Solo">>
    /\ Msgs(report, StructurePath) = <<BadLabelMsg("Solo")>>

\* the message of a column-count error for line idx of a file of n columns
ColumnsMsg(idx, n) ==
  "[ColumnCountError] line " \o Str(idx) \o " should have " \o Str(n) \o " columns"

\* the message of the time-format error for cell t of line idx
TimeMsg(idx, t) == "[TimeFormatError] line " \o Str(idx) \o " " \o t \o " should be mm:ss"

\* C17 as stated: for every non-blank row after the first of a Structure
\* CSV, a column-count error is reported exactly when the number of the
\* row's comma-separated cells, empty cells included, differs from the
\* number of columns of the header, and one time-format error is reported
\* for each cell that is not two digits, a colon, two digits.
C17_RowCells ==
  \A report \in FilesReports :
    StructureLines # <<>> =>
      LET columns == Len(LabelsOf(StructureLines[1]))
      IN  \A idx \in 2..Len(StructureLines) :
            Strip(StructureLines[idx]) # "" =>
              LET cells == CellsOf(Strip(StructureLines[idx]))
              IN  /\ CountMsg(report, StructurePath, ColumnsMsg(idx, columns))
                       = IF Len(cells) # columns THEN 1 ELSE 0
                  /\ Cardinality({k \in DOMAIN Msgs(report, StructurePath) :
                                    StartsWith(report[StructurePath][k],
                                               "[TimeFormatError] line " \o Str(idx) \o " ")})
                       = Cardinality({i \in DOMAIN cells : ~TimeOk(cells[i])})

\* the WAV files of the DAW project folder whose names start with the song
\* prefix and that name an instrument
PrefixedWavs ==
  {w \in listdir(fs, DawPath) :
     /\ IsWavName(w) /\ ~isdir(fs, join(DawPath, w))
     /\ StartsWith(w, FilesSong \o "_")
     /\ inst_name(FilesSong, w) # ""}

\* the group of a file: the files parsed to the same instrument name
GroupOf(w) == {v \in PrefixedWavs : inst_name(FilesSong, v) = inst_name(FilesSong, w)}

\* C18: the WAV files of the DAW project folder that start with the song
\* prefix are grouped by parsed instrument name.  The only file of a group
\* yields exactly one redundant-index error on its path when it carries a
\* take index, and none when it does not; in a group of more than one file
\* every member without an index yields exactly one missing-index error on
\* its path and a member with an index yields none.
C18_GroupArity ==
  \A report \in FilesReports :
    \A w \in PrefixedWavs :
      LET path    == join(DawPath, w)
          indexed == has_num(FilesSong, w)
          single  == Cardinality(GroupOf(w)) = 1
      IN  /\ CountTag(report, path, "[NamingRedundant]") = IF single /\ indexed THEN 1 ELSE 0
          /\ CountTag(report, path, "[NamingMissing]") = IF ~single /\ ~indexed THEN 1 ELSE 0

\* a DAW project folder with the instrument BASS only as Song_BASS_1.wav and
\* the instrument GTR as Song_GTR.wav and Song_GTR_1.wav was checked
C18_Witness ==
  \E report \in FilesReports :
    /\ PrefixedWavs = {FilesSong \o "_BASS_1.wav", FilesSong \o "_GTR.wav", FilesSong \o "_GTR_1.wav"}
    /\ CountTag(report, join(DawPath, FilesSong \o "_BASS_1.wav"), "[NamingRedundant]") = 1
    /\ CountTag(report, join(DawPath, FilesSong \o "_GTR.wav"), "[NamingMissing]") = 1
    /\ join(DawPath, FilesSong \o "_GTR_1.wav") \notin DOMAIN report

\* a name that ends, in any letter case, in one of the project suffixes
HasProjectSuffix(x) == \E e \in {".flp", ".logicx", ".cpr"} : EndsWith(Lower(x), e)

MissingProjectMsg == "[MissingFile] missing DAW project file (.flp / .logicx / .cpr)"

\* C20: when the DAW project folder exists, the report holds the
\* missing-project-file error, once and keyed on that folder, exactly when
\* no entry of the folder, file or directory, has a name that ends in .flp,
\* .logicx or .cpr in any letter case.
C20_ProjectFile ==
  \A report \in FilesReports :
    isdir(fs, DawPath) =>
      /\ CountMsg(report, DawPath, MissingProjectMsg)
           = IF \E x \in listdir(fs, DawPath) : HasProjectSuffix(x) THEN 0 ELSE 1
      /\ \A k \in DOMAIN report \ {DawPath} : CountMsg(report, k, MissingProjectMsg) = 0

\* a DAW project folder whose only project-like entries are proj.flp.bak and
\* flp was checked, and the error is in the report
C20_Witness ==
  \E report \in FilesReports :
    /\ {"proj.flp.bak", "flp"} \subseteq listdir(fs, DawPath)
    /\ CountMsg(report, DawPath, MissingProjectMsg) = 1

(***************************************************************************)
(* Two callers whose invocations of check_song_folder interleave.          *)
(***************************************************************************)
\* the song folders each caller checks: distinct folders of the workspace
PathsOf(c) ==
  IF c = "c1" THEN {join(WorkspaceRoot, "A_Song_B")}
  ELSE {join(WorkspaceRoot, "A_Song_B2"), join(WorkspaceRoot, "AS")}

NextTwo ==
  \/ \E c \in Callers : \E p \in PathsOf(c) : Call(c, p)
  \/ \E c \in Callers : CheckStep(c)
  \/ \E c \in Callers : Return(c)

SpecTwo == InitScan /\ [][NextTwo]_vars

\* C21: whatever the order in which the steps of two invocations of
\* check_song_folder on distinct song folders interleave, each returns the
\* report (or raises the exception) that it gives when it runs alone on the
\* same file system.
C21_Isolated ==
  \A c \in Callers :
    \A i \in DOMAIN returned[c] :
      LET alone == check_song_folder(fs, returned[c][i].song_path)
      IN  /\ returned[c][i].exc = alone.exc
          /\ alone.exc = "" => returned[c][i].report = alone.error_map

\* both callers have returned from a first call and are both in the middle
\* of a second one, each with errors collected so far
C21_Witness ==
  /\ \A c \in Callers : returned[c] # <<>> /\ returned[c][1].report # <<>>
  /\ frame["c1"].pc = "daw" /\ frame["c1"].error_map # <<>>
  /\ frame["c2"].pc = "csv" /\ frame["c2"].error_map # <<>>

(***************************************************************************)
(* check_song_folder on folders that differ from a compliant one in the    *)
(* entries of one of the stems, mixdown, MIDI and CSV subdirectories.      *)
(***************************************************************************)
\* the rules of the four subdirectories for the song name sn: the extension,
\* the required and the allowed filenames, whether files are validated as
\* WAVs, and one of the required filenames
Rules(sn) ==
  { [dir |-> "fenguiwav", ext |-> ".wav",
     required |-> {sn \o "_Vocal_A.wav", sn \o "_Vocal_B.wav",
                   sn \o "_Vocal_A(gansheng).wav", sn \o "_Vocal_B(gansheng).wav"},
     allowed |-> {sn \o "_BASS.wav", sn \o "_DR.wav", sn \o "_GTR.wav", sn \o "_PNO.wav",
                  sn \o "_OTHER.wav", sn \o "_BG.wav", sn \o "_BG(gansheng).wav"},
     validated |-> TRUE, one |-> sn \o "_Vocal_A.wav", lower |-> "song_vocal_a.wav"],
    [dir |-> "zongguiwav", ext |-> ".wav",
     required |-> {sn \o "_Mix_A.wav", sn \o "_Mix_B.wav"}, allowed |-> {},
     validated |-> TRUE, one |-> sn \o "_Mix_A.wav", lower |-> "song_mix_a.wav"],
    [dir |-> "midi", ext |-> ".mid",
     required |-> {sn \o "_Vocal_midi.mid", sn \o "_Mix_midi.mid"},
     allowed |-> {sn \o "_BG_midi.mid"},
     validated |-> FALSE, one |-> sn \o "_Mix_midi.mid", lower |-> "song_mix_midi.mid"],
    [dir |-> "csv", ext |-> ".csv",
     required |-> {sn \o "_Beat.csv", sn \o "_Structure.csv"}, allowed |-> {},
     validated |-> FALSE, one |-> sn \o "_Beat.csv", lower |-> "song_beat.csv"] }

\* the single changes made to the entries of the subdirectory of rule r
DirEntries(r) ==
  { Edit(r.dir \o "/old", DirNode),
    Edit(r.dir \o "/notes.txt", TextNode(<<"x">>)),
    Edit(r.dir \o "/" \o FilesSong \o "_XX" \o r.ext, BlobNode),
    Edit(r.dir \o "/.hidden" \o r.ext, BlobNode),
    Edit(r.dir \o "/.DS_Store", BlobNode),
    Edit(r.dir \o "/.git", DirNode),
    Edit(".hidden" \o r.ext, BlobNode),
    Edit(r.dir \o "/" \o r.lower, GoodWav),
    Edit(r.dir \o "/" \o r.one, NoNode),
    Edit(r.dir \o "/" \o r.one, DirNode),
    Edit(r.dir \o "/" \o r.one, WavNode(44100, 2, "PCM_24")) }

\* at most MaxEntries changes, no two of them to the same path
DirChanges(r) ==
  {E \in SubsetsUpTo(DirEntries(r), MaxEntries) : \A d, e \in E : d.rel = e.rel => d = e}

DirCases ==
  UNION {{FilesFs(E) : E \in DirChanges(r)}
           \cup {FilesFs({Edit(r.dir, NoNode)}), FilesFs({Edit(r.dir, BlobNode)})} :
         r \in Rules(FilesSong)}

InitDirs ==
  /\ fs \in DirCases
  /\ frame = [c \in Callers |-> IdleFrame]
  /\ returned = [c \in Callers |-> <<>>]
  /\ WindowInit(WorkspaceRoot)

SpecDirs == InitDirs /\ [][Next]_vars

\* the rules whose subdirectory exists, as a directory, in the folder
ExistingRules == {r \in Rules(FilesSong) : isdir(fs, join(FilesPath, r.dir))}

\* how many errors of each treatment a report holds for entry x at path:
\* extra folder, extra file/format, extra file, content validator
Treatments(report, path, x) ==
  << CountTag(report, path, "[ExtraFolder]"),
     CountTag(report, path, "[ExtraFile/FormatError]"),
     CountTag(report, path, "[ExtraFile]"),
     CountTag(report, path, "[AudioFormatError]") + CountTag(report, path, "[CannotReadWAV]") >>

\* C22: in each existing stems, mixdown, MIDI or CSV subdirectory every entry
\* gets exactly one of four treatments, decided in this order: a directory
\* gets one extra-folder error; a non-directory whose name does not end, in
\* any letter case, in the rule's extension gets one extra-file/format
\* error; a name outside the required and the allowed names gets one
\* extra-file error; a recognized name gets only what the rule's content
\* validator returns for it, and the validator is run on no other entry.
\* The errors are keyed on the entry's own path and name the entry.
C22_OneTreatment ==
  \A report \in FilesReports :
    \A r \in ExistingRules :
      \A x \in listdir(fs, join(FilesPath, r.dir)) :
        LET path == join(join(FilesPath, r.dir), x)
            fmt  == IF r.validated THEN check_wav_format(fs, path) ELSE ""
        IN  /\ Treatments(report, path, x)
                 = IF isdir(fs, path) THEN <<1, 0, 0, 0>>
                   ELSE IF ~EndsWith(Lower(x), r.ext) THEN <<0, 1, 0, 0>>
                   ELSE IF x \notin r.required \cup r.allowed THEN <<0, 0, 1, 0>>
                   ELSE <<0, 0, 0, IF fmt = "" THEN 0 ELSE 1>>
            /\ CountMsg(report, path, "[ExtraFolder] " \o x) = Treatments(report, path, x)[1]
            /\ CountMsg(report, path, "[ExtraFile/FormatError] " \o x)
                 = Treatments(report, path, x)[2]
            /\ CountMsg(report, path, "[ExtraFile] " \o x) = Treatments(report, path, x)[3]
            /\ fmt # "" => CountMsg(report, path, fmt) = Treatments(report, path, x)[4]

\* a stems folder was checked that holds a file of the right extension and an
\* unrecognized name that is no sound file, next to a recognized stem with a
\* wrong header: the first has the extra-file error only, the second the
\* validator's message only
C22_Witness ==
  \E report \in FilesReports :
    /\ Msgs(report, join(FilesPath, "fenguiwav/" \o FilesSong \o "_XX.wav"))
         = <<"[ExtraFile] " \o FilesSong \o "_XX.wav">>
    /\ Treatments(report, join(FilesPath, "fenguiwav/" \o FilesSong \o "_Vocal_A.wav"),
                  FilesSong \o "_Vocal_A.wav") = <<0, 0, 0, 1>>

\* C23: for each of the stems, mixdown, MIDI and CSV subdirectories that
\* exists and each required filename R of its rule, the report holds exactly
\* one missing-file error for R, keyed on the subdirectory's path, when the
\* subdirectory lists no entry named exactly R, letter case included, and
\* none when it lists one; for a subdirectory that does not exist no
\* missing-file error is reported.
C23_MissingFiles ==
  \A report \in FilesReports :
    \A r \in Rules(FilesSong) :
      LET path   == join(FilesPath, r.dir)
          absent == {R \in r.required : R \notin listdir(fs, path)}
      IN  IF isdir(fs, path)
            THEN /\ \A R \in r.required :
                      CountMsg(report, path, "[MissingFile] " \o R)
                        = IF R \in absent THEN 1 ELSE 0
                 /\ CountTag(report, path, "[MissingFile]") = Cardinality(absent)
            ELSE ~exists(fs, path) => CountTag(report, path, "[MissingFile]") = 0

\* a stems folder was checked that lists song_vocal_a.wav but not
\* Song_Vocal_A.wav: the report holds the one missing-file error, for
\* Song_Vocal_A.wav
C23_Witness ==
  \E report \in FilesReports :
    /\ "song_vocal_a.wav" \in listdir(fs, join(FilesPath, "fenguiwav"))
    /\ FilesSong \o "_Vocal_A.wav" \notin listdir(fs, join(FilesPath, "fenguiwav"))
    /\ Msgs(report, join(FilesPath, "fenguiwav"))
         = <<"[MissingFile] " \o FilesSong \o "_Vocal_A.wav">>

\* the entries of a directory whose names start with "."
Hidden(path) == {x \in listdir(fs, path) : StartsWith(x, ".")}

\* C27: inside the stems, mixdown, MIDI and CSV subdirectories an entry whose
\* name starts with "." is classified by the rules of every other entry (a
\* directory: extra folder; a wrong extension: extra file/format; else, its
\* name never being a required or allowed one: extra file), while at the top
\* level of the song folder such an entry gets no error at all.
C27_HiddenEntries ==
  \A report \in FilesReports :
    /\ \A r \in ExistingRules :
         \A x \in Hidden(join(FilesPath, r.dir)) :
           LET path == join(join(FilesPath, r.dir), x)
           IN  Msgs(report, path)
                 = IF isdir(fs, path) THEN <<"[ExtraFolder] " \o x>>
                   ELSE IF ~EndsWith(Lower(x), r.ext) THEN <<"[ExtraFile/FormatError] " \o x>>
                   ELSE <<"[ExtraFile] " \o x>>
    /\ \A x \in Hidden(FilesPath) : join(FilesPath, x) \notin DOMAIN report

\* a folder was checked that holds .hidden.wav both at its top level and in
\* its stems folder: only the one in the stems folder is in the report
C27_Witness ==
  \E report \in FilesReports :
    /\ ".hidden.wav" \in Hidden(FilesPath)
    /\ ".hidden.wav" \in Hidden(join(FilesPath, "fenguiwav"))
    /\ join(FilesPath, ".hidden.wav") \notin DOMAIN report
    /\ Msgs(report, join(FilesPath, "fenguiwav/.hidden.wav")) = <<"[ExtraFile] .hidden.wav">>

(***************************************************************************)
(* check_song_folder on folders that differ from a compliant one in the    *)
(* WAVs of the DAW project folder.                                         *)
(***************************************************************************)
MaxWavs == 3

BadWav == WavNode(44100, 2, "PCM_16")

\* WAVs put into the DAW project folder
DawWavs ==
  {Edit(DawRel \o "/" \o FilesSong \o n, GoodWav) :
     n \in {"_GTR.wav", "_GTR_1.wav", "_GTR_2.WAV", "_E_GTR.wav", "_E_GTR_1.wav",
            "_GTR_1_2.wav", "_GTR_.wav", "_.wav", "__1.wav", ".wav", "X_GTR_1.wav"}}
  \cup {Edit(DawRel \o "/XX_GTR.wav", GoodWav),
        Edit(DawRel \o "/XX_GTR_1.wav", BadWav),
        Edit(DawRel \o "/" \o FilesSong \o "_GTR.wav", BadWav),
        Edit(DawRel \o "/" \o FilesSong \o "_.wav", BlobNode),
        Edit(DawRel \o "/" \o FilesSong \o "_PNO_1.wav", DirNode)}

DawCases ==
  {FilesFs(E) : E \in {E \in SubsetsUpTo(DawWavs, MaxWavs) : \A d, e \in E : d.rel = e.rel => d = e}}

InitDaw ==
  /\ fs \in DawCases
  /\ frame = [c \in Callers |-> IdleFrame]
  /\ returned = [c \in Callers |-> <<>>]
  /\ WindowInit(WorkspaceRoot)

SpecDaw == InitDaw /\ [][Next]_vars

\* the WAV files of the DAW project folder
DawWavFiles == {w \in listdir(fs, DawPath) : IsWavName(w) /\ ~isdir(fs, join(DawPath, w))}

\* the errors of the index rule a report holds for a path
IndexErrors(report, path) ==
  CountTag(report, path, "[NamingRedundant]") + CountTag(report, path, "[NamingMissing]")

\* C24: every WAV file of the DAW project folder gets the physical-format
\* check, also one that fails the song-prefix rule; a WAV whose name does not
\* start with the song name and "_" has exactly one naming error on its path
\* and takes no part in the grouping: it has no redundant-index and no
\* missing-index error, and the files that start with the prefix have the
\* errors of the index rule that their groups without it give them.
C24_PrefixRule ==
  \A report \in FilesReports :
    /\ \A w \in DawWavFiles :
         LET path == join(DawPath, w)
             fmt  == check_wav_format(fs, path)
         IN  /\ CountTag(report, path, "[AudioFormatError]") + CountTag(report, path, "[CannotReadWAV]")
                  = IF fmt = "" THEN 0 ELSE 1
             /\ fmt # "" => CountMsg(report, path, fmt) = 1
             /\ CountTag(report, path, "[NamingError]")
                  = IF StartsWith(w, FilesSong \o "_") THEN 0 ELSE 1
             /\ ~StartsWith(w, FilesSong \o "_") => IndexErrors(report, path) = 0
    /\ \A w \in PrefixedWavs :
         IndexErrors(report, join(DawPath, w))
           = IF (Cardinality(GroupOf(w)) = 1) = has_num(FilesSong, w) THEN 1 ELSE 0

\* a DAW project folder was checked that holds XX_GTR_1.wav with a wrong
\* header next to Song_GTR.wav: the first has its format error and its
\* naming error, and the second, alone in its group, has no error
C24_Witness ==
  \E report \in FilesReports :
    /\ DawWavFiles = {"XX_GTR_1.wav", FilesSong \o "_GTR.wav"}
    /\ Len(Msgs(report, join(DawPath, "XX_GTR_1.wav"))) = 2
    /\ CountTag(report, join(DawPath, "XX_GTR_1.wav"), "[AudioFormatError]") = 1
    /\ CountTag(report, join(DawPath, "XX_GTR_1.wav"), "[NamingError]") = 1
    /\ join(DawPath, FilesSong \o "_GTR.wav") \notin DOMAIN report

\* the text of a name between the song prefix and the extension
Remainder(w) ==
  LET dots == {i \in 1..Len(w) : Ch(w, i) = "."}
      stop == IF dots = {} THEN Len(w) + 1 ELSE CHOOSE i \in dots : \A j \in dots : j <= i
  IN  SubSeq(w, Len(FilesSong) + 2, stop - 1)

\* the parse of a remainder R: the instrument name and whether a take index
\* follows it
Parse(R) ==
  LET unders == {i \in 1..Len(R) : Ch(R, i) = "_"}
      last   == IF unders = {} THEN 0 ELSE CHOOSE i \in unders : \A j \in unders : j <= i
      tail   == SubSeq(R, last + 1, Len(R))
      numeric == tail # "" /\ \A i \in 1..Len(tail) : IsDigitCh(Ch(tail, i))
  IN  IF last # 0 /\ numeric THEN [name |-> SubSeq(R, 1, last - 1), indexed |-> TRUE]
      ELSE [name |-> R, indexed |-> FALSE]

\* C25: a WAV of the DAW project folder named song name, "_", R and the
\* extension is parsed so: when R has an underscore and the text after its
\* last underscore is purely numeric, the instrument name is the text before
\* that underscore and the file carries a take index; otherwise the
\* instrument name is all of R and the file carries no index.  A file whose
\* instrument name is empty gets one format error and joins no group, so it
\* has no error of the index rule and is not counted in a group.
C25_Parse ==
  /\ \A w \in {w \in DawWavFiles : StartsWith(w, FilesSong \o "_")} :
       /\ inst_name(FilesSong, w) = Parse(Remainder(w)).name
       /\ has_num(FilesSong, w) = Parse(Remainder(w)).indexed
  /\ \A report \in FilesReports :
       \A w \in {w \in DawWavFiles : StartsWith(w, FilesSong \o "_")} :
         LET path == join(DawPath, w)
             same == {v \in DawWavFiles :
                        /\ StartsWith(v, FilesSong \o "_")
                        /\ Parse(Remainder(v)).name = Parse(Remainder(w)).name}
         IN  IF Parse(Remainder(w)).name = ""
               THEN /\ CountTag(report, path, "[FormatError]") = 1
                    /\ IndexErrors(report, path) = 0
               ELSE /\ CountTag(report, path, "[FormatError]") = 0
                    /\ CountTag(report, path, "[NamingRedundant]")
                         = IF Cardinality(same) = 1 /\ Parse(Remainder(w)).indexed THEN 1 ELSE 0
                    /\ CountTag(report, path, "[NamingMissing]")
                         = IF Cardinality(same) > 1 /\ ~Parse(Remainder(w)).indexed THEN 1 ELSE 0

\* a DAW project folder was checked that holds Song_E_GTR_1.wav (instrument
\* E_GTR, indexed, alone), Song_GTR_.wav (instrument GTR_, no index) and
\* Song__1.wav (no instrument name)
C25_Witness ==
  \E report \in FilesReports :
    /\ DawWavFiles = {FilesSong \o "_E_GTR_1.wav", FilesSong \o "_GTR_.wav", FilesSong \o "__1.wav"}
    /\ CountTag(report, join(DawPath, FilesSong \o "_E_GTR_1.wav"), "[NamingRedundant]") = 1
    /\ join(DawPath, FilesSong \o "_GTR_.wav") \notin DOMAIN report
    /\ Msgs(report, join(DawPath, FilesSong \o "__1.wav"))
         = <<"[FormatError] instrument name must not be empty">>

(***************************************************************************)
(* check_song_folder on folders of various names.                          *)
(***************************************************************************)
\* the basenames of the song folders
FolderBasenames ==
  {"A_Song_B", "A_Song_B_C", "A_Song_B_C_D", "Au_So_Tr", "A_B", "AS", "A__B", "A___B",
   "__A_B", "_A_B", "A_B_", "A_Song_", "_Song_B", "A__B_C", "___", "A_Song_B "}

\* the file systems with one song folder, whose files are named for the song
\* name Song or for the whole basename
NameCases ==
  {BaseFs @@ (join(WorkspaceRoot, n) :> DirNode) @@ Mount(join(WorkspaceRoot, n), tree) :
     n \in FolderBasenames,
     tree \in {CompliantTree("Song"), ExampleTree("Song"), ExampleTree("So"), <<>>}}

InitNames ==
  /\ fs \in NameCases
  /\ frame = [c \in Callers |-> IdleFrame]
  /\ returned = [c \in Callers |-> <<>>]
  /\ WindowInit(WorkspaceRoot)

\* the ways the caller writes the path of the song folder of the file system
NamePaths ==
  UNION {{k, "./" \o basename(k), k \o "/"} :
           k \in {k \in DOMAIN fs : k # "/" /\ dirname(k) = WorkspaceRoot}}

NextNames ==
  \/ \E p \in NamePaths : Call("c1", p)
  \/ CheckStep("c1")
  \/ Return("c1")

SpecNames == InitNames /\ [][NextNames]_vars

\* the segments of a basename: the texts between its underscores
Segments(b) ==
  LET cuts == {0} \cup {i \in 1..Len(b) : Ch(b, i) = "_"} \cup {Len(b) + 1}
      Nth(k) == CHOOSE i \in cuts : Cardinality({j \in cuts : j < i}) = k
  IN  [k \in 1..(Cardinality(cuts) - 1) |-> SubSeq(b, Nth(k - 1) + 1, Nth(k) - 1)]

\* C26 as stated: a basename made of three or more non-empty segments
\* separated by "_" matches the pattern, and the song name used by all
\* filename templates is its second segment, also when it has more than two
\* underscores; a basename with fewer than three non-empty segments does not
\* match, so it gets the naming error.
C26_Segments ==
  \A r \in Returned :
    (isdir(fs, r.song_path) /\ r.exc = "") =>
      LET segs == Segments(basename(r.song_path))
          full == {k \in DOMAIN segs : segs[k] # ""}
      IN  /\ (Len(segs) >= 3 /\ full = DOMAIN segs) =>
                /\ CountTag(r.report, abspath(r.song_path), "[NamingError]") = 0
                /\ r.song_name = segs[2]
                /\ TemplatesUse(r, segs[2])
          /\ Cardinality(full) < 3 =>
                CountTag(r.report, abspath(r.song_path), "[NamingError]") = 1

(***************************************************************************)
(* The window while song folders are corrected on disk during a scan.      *)
(***************************************************************************)
\* the file system with the directory at path holding the tree
WithFolder(f, path, tree) ==
  LET kept == {k \in DOMAIN f : ~InFolder(k, path)}
      new  == (path :> DirNode) @@ Mount(path, tree)
  IN  [q \in kept \cup DOMAIN new |-> IF q \in DOMAIN new THEN new[q] ELSE f[q]]

\* the files of a song folder are corrected on disk: the folder gets the
\* compliant tree of its song name.  A folder never goes back to an earlier
\* content.
FixFolder(name) ==
  /\ app = "running"
  /\ isdir(fs, join(root_dir, name))
  /\ fs' = WithFolder(fs, join(root_dir, name), ScanTree(name, "compliant"))
  /\ fs' # fs
  /\ UNCHANGED scanvars
  /\ UNCHANGED callvars

\* the workspaces with the uncorrected folder A_Song_B and without folder AS
RaceWorkspaces ==
  {w \in Workspaces : /\ join(WorkspaceRoot, "AS") \notin DOMAIN w
                      /\ join(WorkspaceRoot, "A_Song_B/zongguiwav") \notin DOMAIN w
                      /\ join(WorkspaceRoot, "A_Song_B") \in DOMAIN w}

\* the folders that are corrected on disk
RaceFolders == {"A_Song_B"}

InitRace ==
  /\ fs \in RaceWorkspaces
  /\ frame = [c \in Callers |-> IdleFrame]
  /\ returned = [c \in Callers |-> <<>>]
  /\ WindowInit(WorkspaceRoot)

NextRace ==
  \/ RunFullScan
  \/ WorkerList
  \/ WorkerCheck
  \/ WorkerFinish
  \/ OnScanFinished
  \/ \E p \in ChangedPaths : TriggerPartialScan(p)
  \/ \E n \in RaceFolders : FixFolder(n)

SpecRace == InitRace /\ [][NextRace]_vars

\* the entries of an error map keyed on a folder or on a path inside it
EntriesOf(d, folder) == [k \in {k \in DOMAIN d : InFolder(k, folder)} |-> d[k]]

\* C28: if an incremental rescan of song folder F completes while a
\* full-scan worker is still running, then after the handler of that
\* worker's finished signal has run the entries of the error map for F are
\* those of the most recent validation of F: a full-scan result for F
\* computed before a later change to F never replaces the newer rescan
\* result.  (No folder goes back to an earlier content, so a rescan that saw
\* F as it is now is at least as recent as the worker's validation of F.)
C28_NewerRescanKept ==
  [][ (OnScanFinished /\ worker.state = "done" /\ Len(finished) = 1) =>
        \A F \in SubFoldersOf(fs, root_dir) :
          ( /\ last_rescan.song_path = F
            /\ last_rescan.exc = ""
            /\ last_rescan.worker \in {"started", "checking"}
            /\ EntriesOf(last_rescan.after, F)
                 = EntriesOf(check_song_folder(fs, F).error_map, F) )
          => EntriesOf(error_data', F) = EntriesOf(last_rescan.after, F) ]_vars

(***************************************************************************)
(* The window while song folders are deleted, renamed and created.         *)
(***************************************************************************)
\* what trigger_partial_scan leaves once check_song_folder gave r
partial_result(data, song_path, r) ==
  [rescanned |-> TRUE, song_path |-> song_path, exc |-> r.exc,
   error_data |-> IF r.exc # ""
                    THEN without(data, {k \in DOMAIN data : StartsWithSongPath(k, song_path)})
                    ELSE update(without(data, {k \in DOMAIN data :
                                                 StartsWithSongPath(k, song_path)}),
                                r.error_map)]

\* trigger_partial_scan(changed_path) on file system f with error map data
partial_scan_of(f, root, data, changed_path, first) ==
  IF isdir(f, root) /\ first # "." /\ isdir(f, join(root, first))
    THEN partial_result(data, join(root, first), check_song_folder(f, join(root, first)))
    ELSE [rescanned |-> FALSE, song_path |-> "", exc |-> "", error_data |-> data]

partial_scan(f, root, data, changed_path) ==
  partial_scan_of(f, root, data, changed_path, Split(relpath(changed_path, root), "/")[1])

\* shutil.rmtree(path) or os.remove(path)
rmtree(f, path) == [k \in {k \in DOMAIN f : ~InFolder(k, path)} |-> f[k]]

\* os.rename(path, new_path), new_path not existing
rename(f, path, new_path) ==
  LET moved(k) == IF InFolder(k, path)
                    THEN new_path \o SubSeq(k, Len(path) + 1, Len(k))
                    ELSE k
  IN  [q \in {moved(k) : k \in DOMAIN f} |->
         f[CHOOSE k \in DOMAIN f : moved(k) = q]]

\* what a call of trigger_partial_scan inside a try block leaves in
\* last_rescan
rescan_record(ps, before) ==
  IF ps.rescanned
    THEN [song_path |-> ps.song_path, before |-> before, after |-> ps.error_data,
          exc |-> ps.exc, worker |-> worker.state]
    ELSE last_rescan

\* MainWindow.do_delete(path), the user confirming; an exception of the
\* rescan is caught and shown in a message box
DoDelete(path) ==
  /\ app = "running"
  /\ scans.partial < MaxRescans
  /\ exists(fs, path)
  /\ fs' = rmtree(fs, path)
  /\ scans' = [scans EXCEPT !.partial = @ + 1]
  /\ \E ps \in {partial_scan(fs', root_dir, error_data, dirname(path))} :
       /\ error_data' = ps.error_data
       /\ last_rescan' = rescan_record(ps, error_data)
  /\ UNCHANGED <<root_dir, worker, finished, app, scanned>>
  /\ UNCHANGED callvars

\* MainWindow.do_rename(path), the user entering new_name, a name that is
\* free in the directory of path; an exception of the rescan is caught and
\* shown in a message box
DoRename(path, new_name) ==
  /\ app = "running"
  /\ scans.partial < MaxRescans
  /\ exists(fs, path)
  /\ new_name # "" /\ new_name # basename(path)
  /\ ~exists(fs, join(dirname(path), new_name))
  /\ fs' = rename(fs, path, join(dirname(path), new_name))
  /\ scans' = [scans EXCEPT !.partial = @ + 1]
  /\ \E ps \in {partial_scan(fs', root_dir, error_data, join(dirname(path), new_name))} :
       /\ error_data' = ps.error_data
       /\ last_rescan' = rescan_record(ps, error_data)
  /\ UNCHANGED <<root_dir, worker, finished, app, scanned>>
  /\ UNCHANGED callvars

\* MainWindow.on_dir_changed(path): the rescan, and for the root the
\* os.listdir(self.root_dir) of line 874, which raises when the root is no
\* longer a directory (trigger_partial_scan has returned at once then)
OnDirChanged(path) ==
  IF normpath(path) = normpath(root_dir) /\ listdir_exc(fs, root_dir) # ""
    THEN /\ app = "running"
         /\ scans.partial < MaxRescans
         /\ scans' = [scans EXCEPT !.partial = @ + 1]
         /\ app' = "crashed"
         /\ UNCHANGED <<fs, root_dir, error_data, worker, finished, scanned, last_rescan>>
         /\ UNCHANGED callvars
    ELSE TriggerPartialScan(path)

\* the names of the folders that appear under the root
NewFolderNames == {"N_New_F"}

\* the names the user and the disk rename folders to
RenameTargets == {"N_New_F", "A_Song_B"}

\* the paths the user deletes and renames
MovePaths ==
  {join(WorkspaceRoot, n) : n \in ScanFolderNames \cup NewFolderNames}
  \cup {join(WorkspaceRoot, "A_Song_B/fenguiwav")}

\* the directories the watcher reports as changed
DirPaths == {WorkspaceRoot} \cup {join(WorkspaceRoot, n) : n \in ScanFolderNames \cup NewFolderNames}

\* a song folder is deleted on disk
DiskDelete(name) ==
  /\ app = "running"
  /\ isdir(fs, join(root_dir, name))
  /\ fs' = rmtree(fs, join(root_dir, name))
  /\ UNCHANGED scanvars
  /\ UNCHANGED callvars

\* a song folder is renamed on disk
DiskRename(name, new_name) ==
  /\ app = "running"
  /\ isdir(fs, join(root_dir, name))
  /\ ~exists(fs, join(root_dir, new_name))
  /\ fs' = rename(fs, join(root_dir, name), join(root_dir, new_name))
  /\ UNCHANGED scanvars
  /\ UNCHANGED callvars

\* a new song folder, with files missing, appears directly under the root
DiskCreate(name) ==
  /\ app = "running"
  /\ isdir(fs, root_dir)
  /\ ~exists(fs, join(root_dir, name))
  /\ fs' = WithFolder(fs, join(root_dir, name), ExampleTree(song_name_of(name)))
  /\ UNCHANGED scanvars
  /\ UNCHANGED callvars

\* the workspaces with the folder A_Song_B2 and without the folder AS
MoveWorkspaces ==
  {w \in Workspaces : /\ join(WorkspaceRoot, "AS") \notin DOMAIN w
                      /\ join(WorkspaceRoot, "A_Song_B2") \in DOMAIN w}

InitMoves ==
  /\ fs \in MoveWorkspaces
  /\ frame = [c \in Callers |-> IdleFrame]
  /\ returned = [c \in Callers |-> <<>>]
  /\ WindowInit(WorkspaceRoot)

NextMoves ==
  \/ \E p \in DirPaths : OnDirChanged(p)
  \/ \E p \in MovePaths : DoDelete(p)
  \/ \E p \in MovePaths, n \in RenameTargets : DoRename(p, n)
  \/ \E n \in ScanFolderNames : DiskDelete(n)
  \/ \E n \in ScanFolderNames, t \in RenameTargets : DiskRename(n, t)
  \/ \E n \in NewFolderNames : DiskCreate(n)

SpecMoves == InitMoves /\ [][NextMoves]_vars

\* the keys of an error map on or inside a folder
KeysIn(d, folder) == {k \in DOMAIN d : InFolder(k, folder)}

\* C29: after a song folder is deleted or renamed, through do_delete or
\* do_rename, or on disk followed by the handling of the directory-changed
\* event of the root, the error map has no key equal to or inside the
\* folder's old path.
C29_NoKeyOfGoneFolder ==
  [][ \A n \in ScanFolderNames \cup NewFolderNames :
        LET F == join(root_dir, n)
        IN  ( /\ app' = "running"
              /\ \/ isdir(fs, F) /\ DoDelete(F)
                 \/ isdir(fs, F) /\ \E t \in RenameTargets : DoRename(F, t)
                 \/ ~exists(fs, F) /\ OnDirChanged(root_dir) )
            => KeysIn(error_data', F) = {} ]_vars

\* C30: after a new song folder appears directly under the workspace root
\* and the directory-changed event of the root has been handled, the error
\* map holds the validation report of that folder, with no new full scan and
\* no further change inside the folder.
C30_NewFolderValidated ==
  [][ \A n \in NewFolderNames :
        LET F == join(root_dir, n)
        IN  (isdir(fs, F) /\ OnDirChanged(root_dir) /\ app' = "running")
            => EntriesOf(error_data', F)
                 = EntriesOf(check_song_folder(fs, F).error_map, F) ]_vars

=============================================================================
